---- MODULE Spec2Model ----
(***************************************************************************)
(* A model of two PRIMME source files:                                     *)
(*   PRIMMESRC/DSRC/restart_d.c       restart of the basis V and of the    *)
(*                                    projected problem (soft locking)     *)
(*   PRIMMESRC/SVDS/ZSRC/primme_svds_z.c   the SVD front end zprimme_svds  *)
(*                                                                         *)
(* Arrays are C arrays: functions over 0..len-1.  Real data that the code  *)
(* only moves around (Ritz values, coefficient vectors, basis columns) is  *)
(* carried as tagged records so that every move is visible.                *)
(***************************************************************************)
EXTENDS Integers, Sequences, FiniteSets, TLC

min(a, b) == IF a < b THEN a ELSE b
max(a, b) == IF a > b THEN a ELSE b
fabs(a) == IF a < 0 THEN 0 - a ELSE a

(***************************************************************************)
(* Bounds of the model.                                                    *)
(***************************************************************************)
MaxBasis == 4
MaxEvals == 2
MaxPrev == 2
MaxBlock == 2
MaxArb == 1
MaxOrthoConst == 1

(***************************************************************************)
(* Program constants.                                                      *)
(***************************************************************************)
RESTART_H_FAILURE == -2
UDUDECOMPOSE_FAILURE == -4
PSEUDOLOCK_FAILURE == -5
INSERT_SUBMATRIX_FAILURE == -1
UNCONVERGED == "UNCONVERGED"
CONVERGED == "CONVERGED"

(***************************************************************************)
(* Tagged data.  A Ritz value is [st, v]: st = "ritz" for a value of the   *)
(* projected problem on entry (v its number), "solved" for the v-th value  *)
(* returned by the small dense solver, "junk" for a value read through an  *)
(* index that is uninitialised or outside the array.  A column (of hVecs,  *)
(* V or W) is [k, i] in the same way.                                      *)
(***************************************************************************)
Ritz(v) == [st |-> "ritz", v |-> v]
Solved(t) == [st |-> "solved", v |-> t]
JunkVal == [st |-> "junk", v |-> 0]
Col(k, i) == [k |-> k, i |-> i]
JunkCol == [k |-> "junk", i |-> 0]
tzero == Col("zero", 0)

\* a[i] of a C array, or the junk element when i is outside the array
At(a, i, junk) == IF i \in DOMAIN a THEN a[i] ELSE junk

(***************************************************************************)
(* reset_flags_dprimme(flags, first, last): the loop runs i = 0..last and  *)
(* never reads first.  Entries beyond the array are not represented.       *)
(***************************************************************************)
reset_flags_dprimme(fl, first, last) ==
  [i \in DOMAIN fl |-> IF i <= last THEN UNCONVERGED ELSE fl[i]]

(***************************************************************************)
(* dtr_dprimme.  newVal = (basisSize-l-r) * sqrt(a/b) in IEEE arithmetic   *)
(* with a = currentRitzVal - hVals[l+1], b = hVals[l+1] - hVals[maxIndex-r]*)
(* is kept exactly as its square c*c*a/b ("fin"), or as "inf" (a > 0 and   *)
(* b = 0) or "nan" (a/b negative, or 0/0); a comparison with a nan is      *)
(* false.                                                                  *)
(***************************************************************************)
GapVal(c, a, b) ==
  IF b = 0
  THEN IF a > 0 THEN [k |-> "inf", num |-> 1, den |-> 1]
                ELSE [k |-> "nan", num |-> 0, den |-> 1]
  ELSE IF a = 0 THEN [k |-> "fin", num |-> 0, den |-> 1]
  ELSE IF (a > 0) = (b > 0) THEN [k |-> "fin", num |-> c * c * fabs(a), den |-> fabs(b)]
  ELSE [k |-> "nan", num |-> 0, den |-> 1]

\* newVal > optVal
GapGreater(x, y) ==
  /\ x.k # "nan"
  /\ y.k # "nan"
  /\ \/ x.k = "inf" /\ y.k = "fin"
     \/ x.k = "fin" /\ y.k = "fin" /\ x.num * y.den > y.num * x.den

\* largest l < basisSize with flags[l] != UNCONVERGED and numLocked + l < numEvals, else 0
RECURSIVE dtr_lMinLocking(_, _, _, _, _, _)
dtr_lMinLocking(fl, bs, nLocked, numEvals, l, lMin) ==
  IF l >= bs THEN lMin
  ELSE dtr_lMinLocking(fl, bs, nLocked, numEvals, l + 1,
         IF fl[l] # UNCONVERGED /\ nLocked + l < numEvals THEN l ELSE lMin)

dtr_lMin(fl, bs, nLocked, p) ==
  IF p.locking
  THEN max(dtr_lMinLocking(fl, bs, nLocked, p.numEvals, 0, 0), min(bs, p.minRestartSize))
  ELSE min(bs, p.minRestartSize)

\* variant of the test below that accepts every pair (l, r)
dtr_blockTest_any(bs, l, r, mbs) == bs - l - r >= 0

\* the (basisSize - l - r) % maxBlockSize test of the search loop
dtr_blockTest(bs, l, r, mbs) == (bs - l - r) % mbs = 0

\* the double loop over l and r; best = [lOpt, rOpt, optVal]
RECURSIVE dtr_search(_, _, _, _, _, _, _, _)
dtr_search(hv, cur, bs, numFree, mbs, l, r, best) ==
  IF l >= bs - numFree THEN best
  ELSE IF r >= bs - l - numFree THEN dtr_search(hv, cur, bs, numFree, mbs, l + 1, 0, best)
  ELSE LET newVal == GapVal(bs - l - r, cur - hv[l + 1].v, hv[l + 1].v - hv[bs - 1 - r].v)
           take == dtr_blockTest(bs, l, r, mbs) /\ GapGreater(newVal, best.optVal)
       IN dtr_search(hv, cur, bs, numFree, mbs, l, r + 1,
            IF take THEN [lOpt |-> l, rOpt |-> r, optVal |-> newVal] ELSE best)

\* columns (or values) lOpt.. are rotated: the last rOpt come first
dtr_move(a, bs, lOpt, rOpt) ==
  [i \in DOMAIN a |->
     IF i < lOpt \/ i >= bs THEN a[i]
     ELSE IF i < lOpt + rOpt THEN a[bs - rOpt + (i - lOpt)]
     ELSE a[lOpt + (i - lOpt - rOpt)]]

\* hVecs in memory: maxBasisSize columns of ld cells each, the cell of row i of
\* column j at ld*j + i; a cell holds the row and the column it belongs to on entry
dtr_memory(bs, ld, ncols) ==
  [q \in 0 .. (ld * ncols - 1) |->
     IF q % ld < bs THEN <<q % ld, q \div ld>> ELSE <<0 - 1, 0 - 1>>]

\* lines 1483-1488: the three Num_dcopy_dprimme on hVecs, which take basisSize for
\* the distance between two columns
dtr_copies(mem, bs, lOpt, rOpt) ==
  LET i == bs - lOpt - rOpt
      rwork == [k \in 0 .. (i * bs - 1) |-> mem[bs * lOpt + k]]
      moved == [q \in DOMAIN mem |->
                  IF bs * lOpt <= q /\ q < bs * lOpt + rOpt * bs
                  THEN mem[bs * (bs - rOpt) + (q - bs * lOpt)] ELSE mem[q]]
  IN [q \in DOMAIN mem |->
        IF bs * (lOpt + rOpt) <= q /\ q < bs * (lOpt + rOpt) + i * bs
        THEN rwork[q - bs * (lOpt + rOpt)] ELSE moved[q]]

\* the columns of hVecs as the caller reads them, with its leading dimension ld:
\* column j is the column c of the entry when its basisSize cells are those of
\* c, and no coefficient vector otherwise
dtr_columns(hvecs, bs, ld, ncols, lOpt, rOpt) ==
  LET mem == dtr_copies(dtr_memory(bs, ld, ncols), bs, lOpt, rOpt)
      whole(j, c) == \A i \in 0 .. (bs - 1) : mem[ld * j + i] = <<i, c>>
  IN [j \in DOMAIN hvecs |->
        IF whole(j, mem[ld * j][2]) THEN hvecs[mem[ld * j][2]] ELSE JunkCol]

\* with ld = basisSize a run of basisSize cells is a column, and the three copies
\* move whole columns as they move the values of hVals
dtr_hVecs(hvecs, bs, ld, ncols, lOpt, rOpt) ==
  IF ld = bs THEN dtr_move(hvecs, bs, lOpt, rOpt)
  ELSE dtr_columns(hvecs, bs, ld, ncols, lOpt, rOpt)

dtr_flags(fl, bs, lOpt, rOpt) ==
  [i \in DOMAIN fl |->
     IF lOpt <= i /\ i < lOpt + rOpt THEN fl[bs - rOpt + (i - lOpt)] ELSE fl[i]]

\* ld is the leading dimension of the caller's hVecs, which the routine does not receive
dtr_dprimme(nLocked, hvecs, hv, fl, bs, numFree, iev0, p, ld) ==
  LET lMin == dtr_lMin(fl, bs, nLocked, p)
      best == dtr_search(hv, hv[iev0].v, bs, numFree, p.maxBlockSize, lMin, 0,
                [lOpt |-> lMin, rOpt |-> 0, optVal |-> [k |-> "fin", num |-> 0, den |-> 1]])
      rs == best.lOpt + best.rOpt
  IN [restartSize |-> rs, lOpt |-> best.lOpt, rOpt |-> best.rOpt, lMin |-> lMin,
      hVecs |-> dtr_hVecs(hvecs, bs, ld, p.maxBasisSize, best.lOpt, best.rOpt),
      hVals |-> dtr_move(hv, bs, best.lOpt, best.rOpt),
      flags |-> reset_flags_dprimme(dtr_flags(fl, bs, best.lOpt, best.rOpt), rs,
                  p.maxBasisSize)]

(***************************************************************************)
(* restart_dprimme, the special case of lines 219-224: the loop            *)
(*   for (i = 0; i < basisSize && *numConverged < numEvals; i++)           *)
(*      if (flags[i] == UNCONVERGED) { flags[i] = CONVERGED; ++ }          *)
(***************************************************************************)
\* variant of the loop below that does not stop at numEvals
RECURSIVE flag_all_converged_noStop(_, _, _, _, _)
flag_all_converged_noStop(fl, nConv, i, bs, numEvals) ==
  IF ~(i < bs) THEN [flags |-> fl, numConverged |-> nConv]
  ELSE IF fl[i] = UNCONVERGED
       THEN flag_all_converged_noStop([fl EXCEPT ![i] = CONVERGED], nConv + 1, i + 1, bs,
              numEvals)
       ELSE flag_all_converged_noStop(fl, nConv, i + 1, bs, numEvals)

RECURSIVE flag_all_converged(_, _, _, _, _)
flag_all_converged(fl, nConv, i, bs, numEvals) ==
  IF ~(i < bs /\ nConv < numEvals) THEN [flags |-> fl, numConverged |-> nConv]
  ELSE IF fl[i] = UNCONVERGED
       THEN flag_all_converged([fl EXCEPT ![i] = CONVERGED], nConv + 1, i + 1, bs, numEvals)
       ELSE flag_all_converged(fl, nConv, i + 1, bs, numEvals)

\* the four branches of lines 219-245
restart_case(bs, nLocked, p) ==
  IF bs + nLocked + p.numOrthoConst >= p.n THEN "exhausted"
  ELSE IF bs <= p.maxBasisSize - p.maxBlockSize THEN "notfull"
  ELSE IF p.scheme = "primme_dtr" THEN "dtr"
  ELSE "thick"

dtr_numFree(nPrev, p) == nPrev + max(3, p.maxBlockSize)

(***************************************************************************)
(* The integer workspace.  restart_dprimme carves restartPerm = iwork and  *)
(* hVecsPerm = &restartPerm[basisSize] (lines 247-249), so a write through *)
(* restartPerm at an index >= basisSize lands in hVecsPerm.  iw is the     *)
(* flat array of these 2*basisSize cells; on entry every cell holds what   *)
(* the caller left there, an arbitrary integer g.  A write outside the two *)
(* arrays goes to memory that is not represented.                          *)
(***************************************************************************)
Garbage == {-1, 0}

iw_init(bs, g) == [c \in 0 .. (2 * bs - 1) |-> g]
iw_write(iw, pos, val) == IF pos \in DOMAIN iw THEN [iw EXCEPT ![pos] = val] ELSE iw
iw_read(iw, pos, g) == IF pos \in DOMAIN iw THEN iw[pos] ELSE g

(***************************************************************************)
(* permute_vecs_dprimme(vecs, m, n, ld, perm, ...) of numerical_d.c:       *)
(* column i of the result is column perm[i] of vecs, for i < n.            *)
(***************************************************************************)
permute_vecs_dprimme(vecs, n, perm, junk) ==
  [i \in DOMAIN vecs |-> IF i < n THEN At(vecs, perm[i], junk) ELSE vecs[i]]

(***************************************************************************)
(* restart_soft_locking_dprimme, lines 442-448: the audit of the flags.    *)
(***************************************************************************)
soft_drifted(hv, ev, rn, i) == fabs(hv[i].v - ev[i]) > rn[i]

\* variant of the audit below: no flag is reset
soft_audit_none(fl, hv, ev, rn, bs, p) == fl

soft_audit(fl, hv, ev, rn, bs, p) ==
  IF bs + p.numOrthoConst < p.n
  THEN [i \in DOMAIN fl |->
          IF i < p.numEvals /\ fl[i] # UNCONVERGED /\ soft_drifted(hv, ev, rn, i)
          THEN UNCONVERGED ELSE fl[i]]
  ELSE fl

\* lines 469-470
\* variant of the cap below that keeps the incoming count
soft_numPrevRetained_uncapped(rs, nPrev, p) == nPrev

soft_numPrevRetained(rs, nPrev, p) == min(p.maxBasisSize, rs + nPrev) - rs

\* lines 472-473: UNCONVERGED among the first numArbitraryVecs (and restartSize) flags
soft_countArbitrary(fl, numArb, rs) ==
  Cardinality({i \in DOMAIN fl : i < numArb /\ i < rs /\ fl[i] = UNCONVERGED})

\* lines 477-480
soft_ievSize(nConv, rs, p) ==
  min(min(p.maxBlockSize, p.numEvals - nConv + 1), p.maxBasisSize - rs)

\* lines 487-497: the loop that fills restartPerm; slots = the indices written
RECURSIVE soft_permLoop(_, _, _, _, _, _, _, _, _)
soft_permLoop(fl, bs, numCand, left, i, j, k, iw, slots) ==
  IF i >= bs THEN [iw |-> iw, slots |-> slots, j |-> j]
  ELSE IF j < numCand /\ fl[i] = UNCONVERGED
       THEN soft_permLoop(fl, bs, numCand, left, i + 1, j + 1, k,
              iw_write(iw, left + j, i), slots \cup {left + j})
  ELSE IF k < left
       THEN soft_permLoop(fl, bs, numCand, left, i + 1, j, k + 1,
              iw_write(iw, k, i), slots \cup {k})
  ELSE soft_permLoop(fl, bs, numCand, left, i + 1, j, k + 1,
              iw_write(iw, numCand + k, i), slots \cup {numCand + k})

\* variant of the count below: the flagged pairs beyond numEvals are counted too
soft_numConverged_all(fl, bs, p) ==
  Cardinality({i \in 0 .. (bs - 1) : fl[i] # UNCONVERGED})

\* lines 501-503
soft_numConverged(fl, bs, p) ==
  Cardinality({i \in 0 .. (bs - 1) : fl[i] # UNCONVERGED /\ i < p.numEvals})

\* lines 520-521: previousHVecs copied into numPrevRetained columns from indexOfPreviousVecs
soft_insertPrev(hvecs, idx, nPrev) ==
  [c \in DOMAIN hvecs |->
     IF idx <= c /\ c < idx + nPrev THEN Col("prev", c - idx) ELSE hvecs[c]]

\* ortho_coefficient_vectors_dprimme on success: the inserted columns are orthonormalised
soft_orthoPrev(hvecs, idx, nPrev) ==
  [c \in DOMAIN hvecs |->
     IF idx <= c /\ c < idx + nPrev THEN Col("orth", c - idx) ELSE hvecs[c]]

\* Num_update_VWXR_dprimme, lines 536-544: columns 0..restartSize-1 of V (of W)
\* become V*hVecs (W*hVecs); X (R) holds the block's Ritz (residual) vectors
\* in the columns that follow
update_col(name, c) == Col(name, IF c.k = "ritz" THEN c.i ELSE 0 - 1 - c.i)

soft_updateV(v, hvecs, rs, left, ievSz, name, blk) ==
  [c \in DOMAIN v |->
     IF c < rs THEN (IF At(hvecs, c, JunkCol).k \in {"ritz", "orth"}
                     THEN update_col(name, hvecs[c]) ELSE JunkCol)
     ELSE IF c < rs + ievSz
          THEN (IF At(hvecs, left + (c - rs), JunkCol).k \in {"ritz", "orth"}
                THEN update_col(blk, hvecs[left + (c - rs)]) ELSE JunkCol)
     ELSE v[c]]

\* lines 553-554: hVecsPerm[restartPerm[i]] = i
RECURSIVE soft_inversePerm(_, _, _)
soft_inversePerm(iw, bs, i) ==
  IF i >= bs THEN iw
  ELSE soft_inversePerm(iw_write(iw, bs + iw[i], i), bs, i + 1)

\* lines 572-576: the shift of the arbitrary vectors; j stays 0 in this loop
RECURSIVE soft_shiftArbitrary(_, _, _, _, _, _, _, _)
soft_shiftArbitrary(iw, bs, rs, idx, left, nPrev, g, i) ==
  IF i >= rs THEN [iw |-> iw, j |-> 0]
  ELSE LET x == iw_read(iw, bs + i, g)
       IN IF idx <= x /\ x < left + 0
          THEN soft_shiftArbitrary(
                 iw_write(iw, bs + i, ((x - idx + 0) % (nPrev + 0)) + idx),
                 bs, rs, idx, left, nPrev, g, i + 1)
          ELSE soft_shiftArbitrary(iw, bs, rs, idx, left, nPrev, g, i + 1)

\* lines 582-589: does assert(iev[j] == i) hold for every UNCONVERGED i met
RECURSIVE soft_ievAssert(_, _, _, _, _, _)
soft_ievAssert(fl, bs, ievv, ievSz, i, j) ==
  IF ~(j < ievSz /\ i < bs) THEN TRUE
  ELSE IF fl[i] = UNCONVERGED
       THEN ievv[j] = i /\ soft_ievAssert(fl, bs, ievv, ievSz, i + 1, j + 1)
       ELSE soft_ievAssert(fl, bs, ievv, ievSz, i + 1, j)

\* lines 612-622: the number of leading converged pairs already stored in evecs
RECURSIVE soft_packStored(_, _, _, _)
soft_packStored(rperm, nConv, nStored, i) ==
  IF i < nConv /\ i \in DOMAIN rperm /\ rperm[i] < nStored
  THEN soft_packStored(rperm, nConv, nStored, i + 1)
  ELSE i

\* lines 612-622: the copies of the loop, made in place one after the other;
\* evecs has numOrthoConst + numEvals columns, and so has evecsHat
RECURSIVE soft_packEvecs(_, _, _, _, _, _)
soft_packEvecs(evecs, rperm, nConv, nStored, nOC, i) ==
  IF i < nConv /\ i \in DOMAIN rperm /\ rperm[i] < nStored
  THEN soft_packEvecs(
         [c \in DOMAIN evecs |->
            IF c = i + nOC THEN At(evecs, rperm[i] + nOC, JunkCol) ELSE evecs[c]],
         rperm, nConv, nStored, nOC, i + 1)
  ELSE evecs

\* lines 628-633: the oldSizeM x newSizeM matrix built in rwork, column i in the
\* cells oldSizeM*i .. oldSizeM*i + oldSizeM - 1; iw holds restartPerm and, behind
\* it, hVecsPerm.  A 1 written past the matrix falls in the workspace that
\* compute_submatrix_dprimme receives.
soft_packSelect(iw, oldSizeM, newSizeM, nOC, g) ==
  LET ones == {oldSizeM * i + i : i \in 0 .. (nOC - 1)}
                \cup {oldSizeM * i + iw_read(iw, i, g) + nOC : i \in nOC .. (newSizeM - 1)}
  IN [q \in 0 .. (oldSizeM * newSizeM - 1) |-> IF q \in ones THEN 1 ELSE 0]

\* lines 634-635, compute_submatrix_dprimme: M = X' * M * X for the matrix X above.
\* An entry of M is the set of the entries of the old M that it is the sum of.
soft_packM(M, X, oldSizeM, newSizeM) ==
  [c \in DOMAIN M |-> [r \in DOMAIN M[c] |->
     IF r < newSizeM /\ c < newSizeM
     THEN UNION {M[rc[2]][rc[1]] :
                   rc \in {q \in (0 .. (oldSizeM - 1)) \X (0 .. (oldSizeM - 1)) :
                             X[oldSizeM * r + q[1]] = 1 /\ X[oldSizeM * c + q[2]] = 1}}
     ELSE M[c][r]]]

\* variant of line 592 below: the block size that was used is reported
soft_ievSizeOut_kept(ievSz) == ievSz

\* line 592: the size of the block is reset before the successful return
soft_ievSizeOut(ievSz) == 0

(***************************************************************************)
(* restart_soft_locking_dprimme, lines 435-640.  a holds the arguments     *)
(* that are read and written (restartSize, hVals, hVecs, flags, V, W,      *)
(* numConverged, numConvergedStored, numPrevRetained, iev), x the          *)
(* outcomes of what lies outside this file: g, the content of an           *)
(* uninitialised workspace cell, and the return codes of                   *)
(* ortho_coefficient_vectors_dprimme (ortho) and Num_update_VWXR_dprimme   *)
(* (vwxr).  The result carries ret and every output as left at the return. *)
(***************************************************************************)
restart_soft_locking_dprimme(a, bs, ev, rn, numArb, hasHat, x, p) ==
  LET fl1 == soft_audit(a.flags, a.hVals, ev, rn, bs, p)
      nPrev == soft_numPrevRetained(a.restartSize, a.numPrevRetained, p)
      cnt == soft_countArbitrary(fl1, numArb, a.restartSize)
      rs == a.restartSize + nPrev
      ievSz == soft_ievSize(a.numConverged, rs, p)
      numCand == max(ievSz, cnt)
      idx == rs - numCand - nPrev
      left == rs - numCand
      pl == soft_permLoop(fl1, bs, numCand, left, 0, 0, 0, iw_init(bs, x.g), {})
      nConv == soft_numConverged(fl1, bs, p)
      rperm == [i \in 0 .. (bs - 1) |-> pl.iw[i]]
      hv1 == permute_vecs_dprimme(a.hVals, bs, rperm, JunkVal)
      hvecs1 == soft_insertPrev(permute_vecs_dprimme(a.hVecs, bs, rperm, JunkCol), idx, nPrev)
      hvecs2 == soft_orthoPrev(hvecs1, idx, nPrev)
      iw2 == soft_inversePerm(pl.iw, bs, 0)
      sh == soft_shiftArbitrary(iw2, bs, rs, idx, left, nPrev, x.g, 0)
      ievv == [i \in DOMAIN a.iev |-> IF i < ievSz THEN iw_read(sh.iw, left + i, x.g) ELSE a.iev[i]]
      rpermEnd == [i \in 0 .. (bs - 1) |-> sh.iw[i]]
      newStored == IF hasHat THEN soft_packStored(rpermEnd, nConv, a.numConvergedStored, 0)
                   ELSE a.numConvergedStored
      oldSizeM == a.numConvergedStored + p.numOrthoConst
      newSizeM == newStored + p.numOrthoConst
      base == [ret |-> 0, restartSize |-> rs, numPrevRetained |-> nPrev, flags |-> fl1,
               ievSize |-> ievSz, indexOfPreviousVecs |-> idx, left |-> left,
               numCandidates |-> numCand, numConverged |-> nConv,
               numConvergedStored |-> a.numConvergedStored,
               hVals |-> hv1, hVecs |-> hvecs1, V |-> a.V, W |-> a.W, iev |-> a.iev,
               evecs |-> a.evecs, evecsHatCols |-> a.evecsHatCols, M |-> a.M,
               restartPerm |-> rperm, hVecsPerm |-> [i \in 0 .. (bs - 1) |-> pl.iw[bs + i]],
               hVecsPermSoft |-> [i \in 0 .. (bs - 1) |-> pl.iw[bs + i]],
               numPrevRetainedCapped |-> nPrev, slots |-> pl.slots, ievOk |-> TRUE]
  IN IF x.ortho # 0 THEN [base EXCEPT !.ret = x.ortho]
     ELSE IF x.vwxr # 0
          THEN [base EXCEPT !.ret = x.vwxr, !.hVecs = hvecs2,
                            !.V = [c \in DOMAIN a.V |-> JunkCol],
                            !.W = [c \in DOMAIN a.W |-> JunkCol]]
     ELSE [base EXCEPT
             !.numPrevRetained = nPrev + sh.j,
             !.hVecs = hvecs2,
             !.V = soft_updateV(a.V, hvecs2, rs, left, ievSz, "V", "X"),
             !.W = soft_updateV(a.W, hvecs2, rs, left, ievSz, "W", "R"),
             !.restartPerm = rpermEnd,
             !.hVecsPerm = [i \in 0 .. (bs - 1) |-> sh.iw[bs + i]],
             !.hVecsPermSoft = [i \in 0 .. (bs - 1) |-> sh.iw[bs + i]],
             !.iev = ievv,
             !.ievOk = soft_ievAssert(fl1, bs, ievv, ievSz, 0, 0),
             !.ievSize = soft_ievSizeOut(ievSz),
             !.numConvergedStored = newStored,
             !.evecs = IF hasHat
                       THEN soft_packEvecs(a.evecs, rpermEnd, nConv, a.numConvergedStored,
                                           p.numOrthoConst, 0)
                       ELSE a.evecs,
             !.evecsHatCols = IF hasHat
                              THEN soft_packEvecs(a.evecsHatCols, rpermEnd, nConv,
                                                  a.numConvergedStored, p.numOrthoConst, 0)
                              ELSE a.evecsHatCols,
             !.M = IF hasHat
                   THEN soft_packM(a.M,
                          soft_packSelect(sh.iw, oldSizeM, newSizeM, p.numOrthoConst, x.g),
                          oldSizeM, newSizeM)
                   ELSE a.M]

(***************************************************************************)
(* restart_RR, lines 948-1020.  hperm is hVecsPerm (basisSize cells); a    *)
(* read of hVecsPerm[j] with j >= basisSize yields the workspace content g.*)
(* solve is the return code of solve_H_dprimme.                            *)
(***************************************************************************)
perm_read(hperm, j, g) == IF j \in DOMAIN hperm THEN hperm[j] ELSE g

\* lines 997-1002
RECURSIVE RR_orderedIndex(_, _, _, _, _)
RR_orderedIndex(hperm, rs, idx, g, i) ==
  IF i >= rs THEN rs
  ELSE IF perm_read(hperm, i, g) = idx THEN i
  ELSE RR_orderedIndex(hperm, rs, idx, g, i + 1)

\* solve_H_dprimme on the block of size nPrev at position at: values and vectors of the block
solved_vals(hv, at, nPrev, code) ==
  [c \in DOMAIN hv |->
     IF at <= c /\ c < at + nPrev THEN (IF code = 0 THEN Solved(c - at) ELSE JunkVal)
     ELSE hv[c]]

solved_vecs(hvecs, at, nPrev, code) ==
  [c \in DOMAIN hvecs |->
     IF at <= c /\ c < at + nPrev THEN (IF code = 0 THEN Col("solved", c - at) ELSE JunkCol)
     ELSE hvecs[c]]

\* H is H[j][i]: column j, row i; the matrix is symmetric and kept in the rows
\* i <= j.  lines 948-950, compute_submatrix_dprimme: the block of the previous
\* vectors receives hVecs' * H * hVecs, "sub" when H is still the old matrix
RR_submatrix(H, bs, nPrev, idx) ==
  LET old == \A c \in 0 .. (bs - 1) : \A r \in 0 .. c : H[c][r] = Col("H", c)
  IN [j \in DOMAIN H |-> [i \in DOMAIN H[j] |->
        IF idx <= j /\ j < idx + nPrev /\ idx <= i /\ i < idx + nPrev
        THEN Col(IF old THEN "sub" ELSE "late", j - idx) ELSE H[j][i]]]

\* lines 958-974: the three loops over the columns before, of and after the block
RR_diagonal(H, hv, rs, nPrev, idx) ==
  [j \in DOMAIN H |-> [i \in DOMAIN H[j] |->
     IF (j < idx \/ (idx + nPrev <= j /\ j < rs)) /\ i <= j
     THEN (IF i = j THEN hv[j] ELSE tzero)
     ELSE IF idx <= j /\ j < idx + nPrev /\ i < idx THEN tzero
     ELSE H[j][i]]]

\* variant of the order below: the loops run before the submatrix is computed
RR_H_diagonalFirst(H, hv, bs, rs, nPrev, idx) ==
  RR_submatrix(RR_diagonal(H, hv, rs, nPrev, idx), bs, nPrev, idx)

\* lines 948-974
RR_H(H, hv, bs, rs, nPrev, idx) ==
  RR_diagonal(RR_submatrix(H, bs, nPrev, idx), hv, rs, nPrev, idx)

restart_RR(hvecs, hv, rs, bs, nPrev, idx, hperm, g, solve, H) ==
  LET units == [c \in DOMAIN hvecs |->
                  IF c < rs THEN Col("unit", perm_read(hperm, c, g)) ELSE hvecs[c]]
      hv2 == permute_vecs_dprimme(hv, rs, [i \in 0 .. (rs - 1) |-> perm_read(hperm, i, g)],
                                  JunkVal)
      oidx == RR_orderedIndex(hperm, rs, idx, g, 0)
  IN [ret |-> IF solve # 0 THEN INSERT_SUBMATRIX_FAILURE ELSE 0,
      hVals |-> solved_vals(hv2, oidx, nPrev, solve),
      hVecs |-> solved_vecs(units, oidx, nPrev, solve),
      orderedIndexOfPreviousVecs |-> oidx,
      assertOk |-> (oidx # rs \/ idx >= rs),
      H |-> RR_H(H, hv, bs, rs, nPrev, idx)]

(***************************************************************************)
(* restart_qr, lines 1166-1357.  x.updQ, x.updProj and x.solve are the     *)
(* return codes of update_Q_dprimme, update_projection_dprimme and         *)
(* solve_H_dprimme; hasQV tells whether QV is not NULL.                    *)
(***************************************************************************)
\* variant of the test below: only a negative index counts as a change
qr_targetChanged_negativeOnly(tsi, nConv, p) == tsi < 0

\* lines 1173-1174
qr_targetChanged(tsi, nConv, p) ==
  \/ tsi < 0
  \/ p.targetShifts[tsi] # p.targetShifts[min(p.numTargetShifts - 1, nConv)]

\* R is R[j][i]: column j, row i, maxBasisSize columns of ldR = maxBasisSize rows
\* line 1166, compute_submatrix_dprimme: H is replaced by hVecs' * H * hVecs
qr_H(H, rs) ==
  [j \in DOMAIN H |-> [i \in DOMAIN H[j] |->
     IF j < rs /\ i <= j THEN Col("projected", j) ELSE H[j][i]]]

\* update_Q_dprimme on the quick exit: a new factor of restartSize columns
qr_fresh(R, rs) ==
  [j \in DOMAIN R |-> [i \in DOMAIN R[j] |->
     IF j < rs /\ i <= j THEN Col("fresh", j) ELSE IF j < rs THEN tzero ELSE R[j][i]]]

\* lines 1216-1221: R(:, indexOfPrevVecs:) = R * hVecs(:, indexOfPrevVecs:), a
\* full block of basisSize rows
qr_prod(R, bs, nPrev, idx) ==
  [j \in DOMAIN R |-> [i \in DOMAIN R[j] |->
     IF idx <= j /\ j < idx + nPrev /\ i < bs THEN Col("prod", j - idx) ELSE R[j][i]]]

\* lines 1231-1236: the columns before the block are zeroed over maxBasisSize rows
\* and receive hSVals[j] on the diagonal
qr_leading(R, hSV, idx, p) ==
  [j \in DOMAIN R |-> [i \in DOMAIN R[j] |->
     IF j < idx /\ i < p.maxBasisSize THEN (IF i = j THEN hSV[j] ELSE tzero)
     ELSE R[j][i]]]

\* line 1244, Num_geqrf_dprimme on the basisSize x numPrevRetained block: the
\* triangular factor on and above the diagonal of the block, the reflectors below
qr_geqrf(R, bs, nPrev, idx) ==
  [j \in DOMAIN R |-> [i \in DOMAIN R[j] |->
     IF idx <= j /\ j < idx + nPrev /\ i < bs
     THEN (IF i <= j - idx THEN Col("tri", j - idx) ELSE Col("house", j - idx))
     ELSE R[j][i]]]

\* lines 1265-1268, Num_copy_trimatrix_dprimme: the upper triangle of the first
\* numPrevRetained rows of the block goes to the rows from indexOfPreviousVecs
\* on, and the strictly lower part of these numPrevRetained rows is zeroed
qr_trimatrix(R, nPrev, idx) ==
  [j \in DOMAIN R |-> [i \in DOMAIN R[j] |->
     IF idx <= j /\ j < idx + nPrev /\ idx <= i /\ i < idx + nPrev
     THEN (IF i <= j THEN R[j][i - idx] ELSE tzero)
     ELSE R[j][i]]]

\* lines 1274-1278: the rows above the block are zeroed in the columns of the block
qr_zeroAbove(R, nPrev, idx) ==
  [j \in DOMAIN R |-> [i \in DOMAIN R[j] |->
     IF idx <= j /\ j < idx + nPrev /\ i < idx THEN tzero ELSE R[j][i]]]

\* lines 1279-1284: the columns after the block are zeroed down to the diagonal
\* and receive hSVals[j] on the diagonal
qr_trailing(R, hSV, rs, nPrev, idx) ==
  [j \in DOMAIN R |-> [i \in DOMAIN R[j] |->
     IF idx + nPrev <= j /\ j < rs /\ i <= j THEN (IF i = j THEN hSV[j] ELSE tzero)
     ELSE R[j][i]]]

\* lines 1216-1284
qr_R(R, hSV, rs, bs, nPrev, idx, p) ==
  qr_trailing(
    qr_zeroAbove(
      qr_trimatrix(qr_geqrf(qr_leading(qr_prod(R, bs, nPrev, idx), hSV, idx, p),
                            bs, nPrev, idx),
                   nPrev, idx),
      nPrev, idx),
    hSV, rs, nPrev, idx)

restart_qr(hvecs, hv, rs, bs, nPrev, idx, hperm, tsi, nConv, hasQV, x, p, R, hSV, rperm) ==
  IF qr_targetChanged(tsi, nConv, p)
  THEN LET tsi2 == min(p.numTargetShifts - 1, nConv)
           code == IF x.updQ # 0 THEN x.updQ
                   ELSE IF hasQV /\ x.updProj # 0 THEN x.updProj
                   ELSE x.solve
           ran == x.updQ = 0 /\ (~hasQV \/ x.updProj = 0)
       IN [ret |-> code, targetShiftIndex |-> tsi2, quick |-> TRUE,
           hVals |-> IF ran THEN solved_vals(hv, 0, rs, code) ELSE hv,
           hVecs |-> IF ran THEN solved_vecs(hvecs, 0, rs, code) ELSE hvecs,
           R |-> IF x.updQ = 0 THEN qr_fresh(R, rs) ELSE R,
           hSVals |-> IF ran THEN solved_vecs(hSV, 0, rs, code) ELSE hSV,
           hSVals1 |-> hSV]
  ELSE LET units == [c \in DOMAIN hvecs |-> IF c < rs THEN Col("unit", c) ELSE hvecs[c]]
           hv2 == solved_vals(hv, idx, nPrev, x.solve)
           hvecs2 == solved_vecs(units, idx, nPrev, x.solve)
           hp == [i \in 0 .. (rs - 1) |-> perm_read(hperm, i, x.g)]
           hSV1 == permute_vecs_dprimme(hSV, bs, rperm, JunkCol)
           R2 == qr_R(R, hSV1, rs, bs, nPrev, idx, p)
           hSV2 == solved_vecs(hSV1, idx, nPrev, x.solve)
       IN IF x.solve # 0
          THEN [ret |-> INSERT_SUBMATRIX_FAILURE, targetShiftIndex |-> tsi, quick |-> FALSE,
                hVals |-> hv2, hVecs |-> hvecs2, R |-> R2, hSVals |-> hSV2,
                hSVals1 |-> hSV1]
          ELSE [ret |-> 0, targetShiftIndex |-> tsi, quick |-> FALSE,
                hVals |-> permute_vecs_dprimme(hv2, rs, hp, JunkVal),
                hVecs |-> permute_vecs_dprimme(hvecs2, rs, hp, JunkCol),
                R |-> R2, hSVals |-> permute_vecs_dprimme(hSV2, rs, hp, JunkCol),
                hSVals1 |-> hSV1]

(***************************************************************************)
(* restart_projection_dprimme, lines 770-851, called with H not NULL.      *)
(* l is the result of the locking stage, x.udu the return code of          *)
(* UDUDecompose_dprimme.                                                   *)
(***************************************************************************)
\* variant of line 806 below: every converged vector counts as new
proj_numRecentlyConverged_all(nConv, evecsSize) == nConv

\* line 806
proj_numRecentlyConverged(nConv, evecsSize) == nConv - evecsSize

\* lines 825-827: applyPreconditioner writes K^{-1} x for a block of columns of
\* evecs into the same columns of evecsHat
proj_applyPreconditioner(hat, first, blockSize) ==
  [c \in DOMAIN hat |->
     IF first <= c /\ c < first + blockSize THEN Col("precond", c) ELSE hat[c]]

\* lines 835-837, update_projection_dprimme: the rows and columns of M of the
\* columns added to evecs and evecsHat
proj_updateM(M, first, blockSize) ==
  [c \in DOMAIN M |-> [r \in DOMAIN M[c] |->
     IF /\ r < first + blockSize
        /\ c < first + blockSize
        /\ (first <= r \/ first <= c)
     THEN {<<r, c>>} ELSE M[c][r]]]

\* lines 840-841: UDU is the factorisation of the leading part of M, of the given size
UDUDecompose_dprimme(UDU, size, code) ==
  [of |-> IF code = 0 THEN size ELSE 0 - 1]

restart_projection_dprimme(l, bs, tsi, hasHat, x, p, R, hSV, H, UDU) ==
  LET harmonic == p.projection = "primme_proj_harmonic"
      rs == l.restartSize
      idx == IF harmonic THEN 0 ELSE l.indexOfPreviousVecs
      nPrev == IF harmonic THEN rs ELSE l.numPrevRetained
      hperm == IF harmonic
               THEN [i \in 0 .. (max(bs, rs) - 1) |-> IF i < rs THEN i ELSE l.hVecsPerm[i]]
               ELSE l.hVecsPerm
      rr == restart_RR(l.hVecs, l.hVals, rs, bs, nPrev, idx, hperm, x.g, x.solve, H)
      qr == restart_qr(l.hVecs, l.hVals, rs, bs, nPrev, idx, hperm, tsi, l.numConverged,
                       harmonic, x, p, R, hSV, l.restartPerm)
      r == IF p.projection = "primme_proj_RR"
           THEN [ret |-> rr.ret, hVals |-> rr.hVals, hVecs |-> rr.hVecs,
                 targetShiftIndex |-> tsi, at |-> rr.orderedIndexOfPreviousVecs,
                 R |-> R, hSVals |-> hSV, hSVals1 |-> hSV, path |-> "RR", H |-> rr.H,
                 assertOk |-> rr.assertOk]
           ELSE [ret |-> qr.ret, hVals |-> qr.hVals, hVecs |-> qr.hVecs,
                 targetShiftIndex |-> qr.targetShiftIndex, at |-> idx,
                 R |-> qr.R, hSVals |-> qr.hSVals, hSVals1 |-> qr.hSVals1,
                 path |-> IF qr.quick THEN "quick" ELSE "incremental",
                 H |-> qr_H(H, rs), assertOk |-> TRUE]
      out == [ret |-> r.ret, hVals |-> r.hVals, hVecs |-> r.hVecs,
              hVecsPerm |-> [i \in DOMAIN l.hVecsPerm |-> hperm[i]],
              targetShiftIndex |-> r.targetShiftIndex, stage |-> "H", at |-> r.at,
              evecsSize |-> l.numConvergedStored, numPreconds |-> 0, factored |-> FALSE,
              precondCalls |-> <<>>, evecsHatCols |-> l.evecsHatCols, M |-> l.M,
              UDU |-> UDU,
              R |-> r.R, H |-> r.H, hSVals |-> r.hSVals, hSVals1 |-> r.hSVals1, path |-> r.path,
              inner |-> r.ret, indexOfPreviousVecs |-> idx, numPrevRetained |-> nPrev,
              assertOk |-> r.assertOk]
      numRecentlyConverged == proj_numRecentlyConverged(l.numConverged, l.numConvergedStored)
  IN IF r.ret # 0 THEN [out EXCEPT !.ret = RESTART_H_FAILURE]
     ELSE IF hasHat
          THEN [out EXCEPT !.numPreconds = numRecentlyConverged,
                           !.precondCalls = <<numRecentlyConverged>>,
                           !.evecsHatCols =
                              proj_applyPreconditioner(l.evecsHatCols,
                                l.numConvergedStored + p.numOrthoConst,
                                numRecentlyConverged),
                           !.M = proj_updateM(l.M, l.numConvergedStored + p.numOrthoConst,
                                              numRecentlyConverged),
                           !.UDU = UDUDecompose_dprimme(UDU, l.numConverged + p.numOrthoConst,
                                                        x.udu),
                           !.evecsSize = l.numConverged,
                           !.stage = "UDU",
                           !.factored = (x.udu = 0),
                           !.ret = IF x.udu # 0 THEN UDUDECOMPOSE_FAILURE ELSE r.ret]
     ELSE out

(***************************************************************************)
(* restart_dprimme, lines 219-291, called with V not NULL and              *)
(* primme->locking = 0.  a is the record of the arguments on entry.  The   *)
(* result is the record of the arguments at the return, with the return    *)
(* value ret; sel, lock and proj keep what the three stages computed.      *)
(***************************************************************************)
restart_select(a, p) ==
  LET c == restart_case(a.basisSize, a.numLocked, p)
      fa == flag_all_converged(a.flags, a.numConverged, 0, a.basisSize, p.numEvals)
      d == dtr_dprimme(a.numLocked, a.hVecs, a.hVals, a.flags, a.basisSize,
                       dtr_numFree(a.numPrevRetained, p), a.iev[0], p, a.ldhVecs)
      same == [case |-> c, restartSize |-> a.basisSize, numPrevRetained |-> a.numPrevRetained,
               flags |-> a.flags, numConverged |-> a.numConverged,
               hVals |-> a.hVals, hVecs |-> a.hVecs]
  IN CASE c = "exhausted" -> [same EXCEPT !.numPrevRetained = 0, !.flags = fa.flags,
                                          !.numConverged = fa.numConverged]
       [] c = "notfull" -> same
       [] c = "dtr" -> [same EXCEPT !.restartSize = d.restartSize, !.flags = d.flags,
                                    !.hVals = d.hVals, !.hVecs = d.hVecs]
       [] OTHER -> [same EXCEPT !.restartSize = min(a.basisSize, p.minRestartSize)]

\* the arguments of the locking stage, lines 251-268
restart_lockArgs(a, sl) ==
  [restartSize |-> sl.restartSize, hVals |-> sl.hVals, hVecs |-> sl.hVecs,
   flags |-> sl.flags, V |-> a.V, W |-> a.W, numConverged |-> sl.numConverged,
   numConvergedStored |-> a.numConvergedStored,
   numPrevRetained |-> sl.numPrevRetained, iev |-> a.iev,
   evecs |-> a.evecs, evecsHatCols |-> a.evecsHatCols, M |-> a.M]

\* lines 274-278: prevRitzVals follows restartPerm and then hVecsPerm when the
\* target is interior
restart_prevRitzVals(a, lk, bs, x, p) ==
  IF p.target # "primme_smallest" /\ p.target # "primme_largest"
  THEN [vals |-> permute_vecs_dprimme(
                   permute_vecs_dprimme(a.prevRitzVals, bs, lk.restartPerm, JunkVal),
                   lk.restartSize,
                   [i \in 0 .. (lk.restartSize - 1) |-> perm_read(lk.hVecsPerm, i, x.g)],
                   JunkVal),
        num |-> lk.restartSize]
  ELSE [vals |-> a.prevRitzVals, num |-> a.numPrevRitzVals]

\* variant of the test of line 270 below: the code of the locking stage is dropped
restart_lockingFailed_ignored(code) == FALSE

\* line 270: the call ends with the code of the locking stage when it is not 0
restart_lockingFailed(code) == code # 0

\* lines 251-291, from what the three stages computed: sl the selection of the
\* size, lk the locking stage, pj the projection stage (not run when lk failed)
restart_dprimme(a, sl, lk, pj, x, p) ==
  LET prev == restart_prevRitzVals(a, lk, a.basisSize, x, p)
      locked == [a EXCEPT !.flags = lk.flags, !.hVals = lk.hVals, !.hVecs = lk.hVecs,
                          !.V = lk.V, !.W = lk.W, !.numConverged = lk.numConverged,
                          !.numConvergedStored = lk.numConvergedStored,
                          !.numPrevRetained = lk.numPrevRetained,
                          !.iev = lk.iev, !.ievSize = lk.ievSize,
                          !.evecs = lk.evecs, !.evecsHatCols = lk.evecsHatCols,
                          !.M = lk.M]
  IN IF restart_lockingFailed(lk.ret)
     THEN [ret |-> lk.ret, args |-> locked, sel |-> sl, lock |-> lk,
           proj |-> [stage |-> "none", ret |-> 0, at |-> 0, numPreconds |-> 0,
                     factored |-> FALSE, precondCalls |-> <<>>, path |-> "none", inner |-> 0,
                     hSVals1 |-> a.hSVals, indexOfPreviousVecs |-> 0,
                     numPrevRetained |-> 0, assertOk |-> TRUE]]
     ELSE [ret |-> 0,
           args |-> [locked EXCEPT !.hVals = pj.hVals, !.hVecs = pj.hVecs,
                                   !.targetShiftIndex = pj.targetShiftIndex,
                                   !.numConvergedStored = pj.evecsSize,
                                   !.evecsHatCols = pj.evecsHatCols,
                                   !.M = pj.M, !.UDU = pj.UDU,
                                   !.R = pj.R, !.H = pj.H, !.hSVals = pj.hSVals,
                                   !.prevRitzVals = prev.vals,
                                   !.numPrevRitzVals = prev.num,
                                   !.restartSizeOutput = lk.restartSize],
           sel |-> sl, lock |-> [lk EXCEPT !.hVecsPerm = pj.hVecsPerm],
           proj |-> [stage |-> pj.stage, ret |-> pj.ret, at |-> pj.at,
                     numPreconds |-> pj.numPreconds, factored |-> pj.factored,
                     precondCalls |-> pj.precondCalls,
                     path |-> pj.path, inner |-> pj.inner, hSVals1 |-> pj.hSVals1,
                     indexOfPreviousVecs |-> pj.indexOfPreviousVecs,
                     numPrevRetained |-> pj.numPrevRetained, assertOk |-> pj.assertOk]]

(***************************************************************************)
(* The calls of restart_dprimme that are explored.  A call is [p, a]: the  *)
(* primme_params that the code reads and the arguments.  All arrays have   *)
(* maxBasisSize cells; the cells from basisSize on are not in use.  The    *)
(* Ritz values come sorted (target smallest), numConverged counts the      *)
(* flagged pairs among the first numEvals, and a flag is CONVERGED only    *)
(* below basisSize.                                                        *)
(***************************************************************************)
Params(n, nEv, mbasis, mblock, minRS, scheme, proj, nts, shifts) ==
  [n |-> n, numOrthoConst |-> 0, numEvals |-> nEv, maxBasisSize |-> mbasis,
   maxBlockSize |-> mblock, minRestartSize |-> minRS, scheme |-> scheme,
   projection |-> proj, locking |-> FALSE, numTargetShifts |-> nts, targetShifts |-> shifts,
   target |-> IF nts = 0 THEN "primme_smallest" ELSE "primme_closest_abs"]

FlagSets(bs, mbasis) ==
  {[i \in 0 .. (mbasis - 1) |-> IF i \in c THEN CONVERGED ELSE UNCONVERGED] :
     c \in SUBSET (0 .. (bs - 1))}

CountConverged(fl, bs, nEv) ==
  Cardinality({i \in 0 .. (bs - 1) : fl[i] # UNCONVERGED /\ i < nEv})

\* evecs (or evecsHat): the numOrthoConst constraints, then the stored vectors
Stored(p, stored, name) ==
  [c \in 0 .. (p.numOrthoConst + p.numEvals - 1) |->
     IF c < p.numOrthoConst THEN Col("constraint", c)
     ELSE IF c < p.numOrthoConst + stored THEN Col(name, c - p.numOrthoConst)
     ELSE JunkCol]

\* vals[i] is the i-th Ritz value; the pairs in drift have moved by 2 > resNorms = 1
Args(p, bs, fl, vals, drift, nPrev, numArb, hasHat, tsi, stored, iev0) ==
  [basisSize |-> bs, numLocked |-> 0, ldhVecs |-> p.maxBasisSize,
   flags |-> fl,
   hVals |-> [i \in 0 .. (p.maxBasisSize - 1) |-> IF i < bs THEN Ritz(vals[i]) ELSE JunkVal],
   hVecs |-> [i \in 0 .. (p.maxBasisSize - 1) |-> IF i < bs THEN Col("ritz", i) ELSE JunkCol],
   V |-> [i \in 0 .. (p.maxBasisSize - 1) |-> IF i < bs THEN Col("basis", i) ELSE JunkCol],
   W |-> [i \in 0 .. (p.maxBasisSize - 1) |-> IF i < bs THEN Col("Abasis", i) ELSE JunkCol],
   evals |-> [i \in 0 .. (p.numEvals - 1) |->
                IF i < bs THEN vals[i] + (IF i \in drift THEN 2 ELSE 0) ELSE 0],
   resNorms |-> [i \in 0 .. (p.numEvals - 1) |-> 1],
   evecsHat |-> hasHat,
   UDU |-> [of |-> p.numOrthoConst + stored],
   evecs |-> Stored(p, stored, "evec"),
   evecsHatCols |-> Stored(p, stored, "evecHat"),
   M |-> [c \in 0 .. (p.numOrthoConst + p.numEvals - 1) |->
           [r \in 0 .. (p.numOrthoConst + p.numEvals - 1) |->
              IF r < p.numOrthoConst + stored /\ c < p.numOrthoConst + stored
              THEN {<<r, c>>} ELSE {<<0 - 1, 0 - 1>>}]],
   prevRitzVals |-> [i \in 0 .. (p.maxBasisSize - 1) |->
                       IF i < bs THEN [st |-> "prev", v |-> vals[i]] ELSE JunkVal],
   numPrevRitzVals |-> bs,
   R |-> [j \in 0 .. (p.maxBasisSize - 1) |-> [i \in 0 .. (p.maxBasisSize - 1) |->
            IF j < bs /\ i <= j THEN Col("R", j) ELSE tzero]],
   H |-> [j \in 0 .. (p.maxBasisSize - 1) |-> [i \in 0 .. (p.maxBasisSize - 1) |->
            IF j < bs /\ i <= j THEN Col("H", j) ELSE JunkCol]],
   hSVals |-> [i \in 0 .. (p.maxBasisSize - 1) |->
                 IF i < bs THEN Col("sval", i) ELSE JunkCol],
   numConverged |-> CountConverged(fl, bs, p.numEvals),
   numConvergedStored |-> stored,
   numPrevRetained |-> nPrev,
   numArbitraryVecs |-> numArb,
   iev |-> [i \in 0 .. (p.maxBlockSize - 1) |-> IF i = 0 THEN iev0 ELSE 0],
   ievSize |-> 1,
   targetShiftIndex |-> tsi,
   restartSizeOutput |-> 0]

Spread(bs) == [i \in 0 .. (bs - 1) |-> 3 * i]

Drifts(fl, bs, nEv) == SUBSET {i \in 0 .. (bs - 1) : i < nEv /\ fl[i] # UNCONVERGED}

(***************************************************************************)
(* zprimme_svds.  A call is [s, svals, svecs, resNorms]: s is the          *)
(* primme_svds_params structure as primme_svds_set_defaults leaves it      *)
(* (isNull when the pointer is NULL; a pointer field is TRUE when it is    *)
(* not NULL), the three others say whether the output arrays are not NULL. *)
(***************************************************************************)
ALLOCATE_WORKSPACE_FAILURE == -1
MALLOC_FAILURE == -2

primme_svds_op_none == "primme_svds_op_none"
primme_svds_op_AtA == "primme_svds_op_AtA"
primme_svds_op_AAt == "primme_svds_op_AAt"
primme_svds_op_augmented == "primme_svds_op_augmented"

\* the else-if chain of primme_svds_check_input
primme_svds_check_input(svals, svecs, resNorms, s) ==
  IF s.isNull THEN 0 - 4
  ELSE IF s.n <= 0 \/ s.m <= 0 THEN 0 - 5
  ELSE IF s.numProcs < 1 THEN 0 - 6
  ELSE IF ~s.matrixMatvec THEN 0 - 7
  ELSE IF ~s.applyPreconditioner /\ s.precondition = 1 THEN 0 - 8
  ELSE IF s.numProcs > 1 /\ ~s.globalSumDouble THEN 0 - 9
  ELSE IF s.numSvals > min(s.n, s.m) THEN 0 - 10
  ELSE IF s.numSvals < 1 THEN 0 - 11
  ELSE IF /\ s.target # "primme_svds_smallest"
          /\ s.target # "primme_svds_largest"
          /\ s.target # "primme_svds_closest_abs" THEN 0 - 13
  ELSE IF /\ s.method # primme_svds_op_AtA
          /\ s.method # primme_svds_op_AAt
          /\ s.method # primme_svds_op_augmented THEN 0 - 14
  ELSE IF \/ /\ s.method = primme_svds_op_augmented
             /\ s.methodStage2 # primme_svds_op_none
          \/ /\ s.method # primme_svds_op_augmented
             /\ s.methodStage2 # primme_svds_op_augmented
             /\ s.methodStage2 # primme_svds_op_none THEN 0 - 15
  ELSE IF s.printLevel < 0 \/ s.printLevel > 5 THEN 0 - 16
  ELSE IF ~svals THEN 0 - 17
  ELSE IF ~svecs THEN 0 - 18
  ELSE IF ~resNorms THEN 0 - 19
  ELSE 0

SizeofComplexZ == 16

\* zprimme(NULL, NULL, NULL, &primme) on the local copy of a stage's structure:
\* the copy receives the sizes that zprimme reports, need = [int, real]
zprimme_query(inner, need) ==
  [inner EXCEPT !.intWorkSize = need.int, !.realWorkSize = need.real]

\* lines 370-382: the sizes of stage 1, with the scratch of matrixMatvecSVDS
svds_sizes1(s, x) ==
  IF s.method # primme_svds_op_none
  THEN LET primme == zprimme_query(s.primme, x.need1)
           extra == IF primme.builtinMatvec
                       /\ s.method \in {primme_svds_op_AtA, primme_svds_op_AAt}
                    THEN primme.maxBlockSize * SizeofComplexZ *
                           (IF s.method = primme_svds_op_AtA THEN s.mLocal ELSE s.nLocal)
                    ELSE 0
       IN [int |-> primme.intWorkSize, real |-> primme.realWorkSize + extra]
  ELSE [int |-> 0, real |-> 0]

\* lines 384-392: the maximum with the sizes of stage 2
svds_sizes2(s, x, sz) ==
  IF s.methodStage2 # primme_svds_op_none
  THEN LET primme == zprimme_query(s.primmeStage2, x.need2)
       IN [int |-> max(sz.int, primme.intWorkSize),
           real |-> max(sz.real, primme.realWorkSize)]
  ELSE sz

\* lines 403-421: one of the two workspaces, given the size that is needed
svds_valloc(have, size, need, x) ==
  IF size < need \/ ~have
  THEN [have |-> x.valloc # "NULL", size |-> need,
        log |-> (IF have THEN <<"free">> ELSE <<>>) \o <<"valloc">>]
  ELSE [have |-> have, size |-> size, log |-> <<>>]

\* allocate_workspace_svds: the events of the call, its return value and the
\* structure as the call leaves it.  The assertion on methodStage2 aborts the
\* call unless assertions are compiled out.
allocate_workspace_svds(s, allocate, x) ==
  LET size1 == IF s.method # primme_svds_op_none THEN <<"size1">> ELSE <<>>
      bad2 == s.methodStage2 \in {primme_svds_op_AtA, primme_svds_op_AAt}
      size2 == IF s.methodStage2 # primme_svds_op_none THEN <<"size2">> ELSE <<>>
      sz == svds_sizes2(s, x, svds_sizes1(s, x))
      rep1 == IF s.method # primme_svds_op_none THEN <<x.need1>> ELSE <<>>
      rep2 == IF s.methodStage2 # primme_svds_op_none THEN <<x.need2>> ELSE <<>>
      rw == svds_valloc(s.realWork, s.realWorkSize, sz.real, x)
      iw == svds_valloc(s.intWork, s.intWorkSize, sz.int, x)
  IN IF bad2 /\ ~x.ndebug
     THEN [returned |-> FALSE, ret |-> 0, log |-> size1, s |-> s, reported |-> rep1]
     ELSE IF ~allocate
     THEN [returned |-> TRUE, ret |-> 1, log |-> size1 \o size2,
           s |-> [s EXCEPT !.intWorkSize = sz.int, !.realWorkSize = sz.real],
           reported |-> rep1 \o rep2]
     ELSE [returned |-> TRUE,
           ret |-> IF ~iw.have \/ ~rw.have THEN MALLOC_FAILURE ELSE 0,
           log |-> size1 \o size2 \o rw.log \o iw.log,
           s |-> [s EXCEPT !.realWork = rw.have, !.realWorkSize = rw.size,
                           !.intWork = iw.have, !.intWorkSize = iw.size],
           reported |-> rep1 \o rep2]

\* variant of the second composite code below
stage2_code_as_stage1(r) == r - 100

\* the composite codes of the two stages
stage1_code(r) == r - 100

stage2_code(r) == r - 200

\* the test that precedes the second stage
second_stage(s) == s.methodStage2 # primme_svds_op_none

\* variant of the offset below that reserves no scratch
svds_cut_none(inner, method, s) == 0

\* lines 228-235 of copy_last_params_from_svds: the number of elements at the
\* start of the real workspace kept for matrixMatvecSVDS
svds_cut(inner, method, s) ==
  IF inner.builtinMatvec /\ method \in {primme_svds_op_AtA, primme_svds_op_AAt}
  THEN inner.maxBlockSize *
         (IF method = primme_svds_op_AtA THEN s.mLocal ELSE s.nLocal)
  ELSE 0

\* lines 236-237: the real workspace handed to the eigensolver of the stage, as
\* the first element and the size in bytes, within primme_svds->realWork
svds_realWork(inner, method, s) ==
  [cut |-> svds_cut(inner, method, s),
   from |-> svds_cut(inner, method, s),
   bytes |-> s.realWorkSize - svds_cut(inner, method, s) * SizeofComplexZ]

\* matrixMatvecSVDS on blockSize columns, from column i on: the loop
\*   for (i=0, bs=min(*blockSize-i, maxBlockSize); bs>0; i+=bs, bs=min(...))
\* of the AtA and AAt cases; each round writes bs columns of rows elements at the
\* start of primme_svds->realWork and reads them back
RECURSIVE matvec_chunks(_, _, _, _)
matvec_chunks(blockSize, maxBlockSize, rows, i) ==
  LET bs == min(blockSize - i, maxBlockSize)
  IN IF bs > 0
     THEN <<[i |-> i, bs |-> bs, scratch |-> [from |-> 0, len |-> bs * rows]]>>
            \o matvec_chunks(blockSize, maxBlockSize, rows, i + bs)
     ELSE <<>>

\* lines 673-711: the calls of primme_svds->matrixMatvec that one call of
\* matrixMatvecSVDS makes, as the chunks of columns it passes
matrixMatvecSVDS(inner, method, s, blockSize) ==
  IF method = primme_svds_op_AtA
  THEN matvec_chunks(blockSize, inner.maxBlockSize, s.mLocal, 0)
  ELSE IF method = primme_svds_op_AAt
  THEN matvec_chunks(blockSize, inner.maxBlockSize, s.nLocal, 0)
  ELSE IF method = primme_svds_op_augmented
  THEN <<[i |-> 0, bs |-> blockSize, scratch |-> [from |-> 0, len |-> 0]]>>
  ELSE <<>>

\* one stage as far as the workspace goes: what copy_last_params_from_svds hands
\* to zprimme, and a product by blockSize columns that zprimme asks of the
\* built-in operator when the stage has no operator of its own
svds_stage_work(s, stage, blockSize) ==
  LET inner == IF stage = 0 THEN s.primme ELSE s.primmeStage2
      method == IF stage = 0 THEN s.method ELSE s.methodStage2
  IN [stage |-> stage, method |-> method, builtin |-> inner.builtinMatvec,
      maxBlockSize |-> inner.maxBlockSize, blockSize |-> blockSize,
      realWork |-> svds_realWork(inner, method, s),
      chunks |-> IF inner.builtinMatvec
                 THEN matrixMatvecSVDS(inner, method, s, blockSize) ELSE <<>>]

\* what a call of zprimme leaves in resNorms: the residual norms of the
\* eigenproblem of its stage (0 or 1), with no conversion applied yet
zprimme_resNorms(stage) == [stage |-> stage, conv |-> <<>>]

\* lines 586-603, the end of copy_last_params_to_svds: under the test on
\* methodStage2 the residual norms are divided by the singular values (AtA, AAt)
\* or multiplied by sqrt(2) (augmented); o.converted lists the stages after
\* which the norms were converted
svds_update_rnorms(s, stage, o) ==
  LET method == IF stage = 0 THEN s.method ELSE s.methodStage2
      kind == IF method \in {primme_svds_op_AtA, primme_svds_op_AAt} THEN <<"over sval">>
              ELSE IF method = primme_svds_op_augmented THEN <<"times sqrt2">>
              ELSE <<>>
  IN IF s.methodStage2 # primme_svds_op_none
     THEN [rnorms |-> [o.rnorms EXCEPT !.conv = @ \o kind],
           converted |-> IF kind # <<>> THEN Append(o.converted, stage) ELSE o.converted]
     ELSE o

\* the stages, after the workspace is there; x.stage1 and x.stage2 are what the two
\* calls of zprimme return, codes what the calls made have returned; each call
\* of zprimme is followed by copy_last_params_to_svds, whatever it returned
svds_stages(s, x, log) ==
  LET o1 == svds_update_rnorms(s, 0, [rnorms |-> zprimme_resNorms(0), converted |-> <<>>])
      o2 == svds_update_rnorms(s, 1, [rnorms |-> zprimme_resNorms(1),
                                      converted |-> o1.converted])
      w1 == svds_stage_work(s, 0, x.block)
      w2 == svds_stage_work(s, 1, x.block)
  IN IF x.stage1 # 0
     THEN [ret |-> stage1_code(x.stage1), log |-> log \o <<"stage1">>,
           codes |-> <<x.stage1>>, rnorms |-> o1.rnorms, converted |-> o1.converted,
           work |-> <<w1>>]
     ELSE IF ~second_stage(s)
     THEN [ret |-> 0, log |-> log \o <<"stage1">>, codes |-> <<x.stage1>>,
           rnorms |-> o1.rnorms, converted |-> o1.converted, work |-> <<w1>>]
     ELSE IF x.stage2 # 0
     THEN [ret |-> stage2_code(x.stage2), log |-> log \o <<"stage1", "stage2">>,
           codes |-> <<x.stage1, x.stage2>>, rnorms |-> o2.rnorms,
           converted |-> o2.converted, work |-> <<w1, w2>>]
     ELSE [ret |-> 0, log |-> log \o <<"stage1", "stage2">>,
           codes |-> <<x.stage1, x.stage2>>, rnorms |-> o2.rnorms,
           converted |-> o2.converted, work |-> <<w1, w2>>]

\* variant of the return of the validation code below: the call goes on
svds_rejected_goes_on(code) == 0

\* zprimme_svds returns the code of primme_svds_check_input when it is not 0
svds_rejected(code) == code

\* resNorms as the caller passed it, when no stage has run
NoNorms == [stage |-> 0 - 1, conv |-> <<>>]

\* the whole call.  Reading through a NULL structure is undefined: x.deref says
\* whether the call dies there or reads the fields of s.
zprimme_svds(a, x) ==
  LET s == a.s
      code == primme_svds_check_input(a.svals, a.svecs, a.resNorms, s)
  IN IF s.isNull /\ x.deref = "crash"
     THEN [returned |-> FALSE, ret |-> 0, checked |-> FALSE, code |-> 0, log |-> <<>>,
           codes |-> <<>>, s |-> s, reported |-> <<>>,
           rnorms |-> NoNorms, converted |-> <<>>, work |-> <<>>]
     ELSE IF ~a.svals /\ ~a.svecs /\ ~a.resNorms
     THEN LET q == allocate_workspace_svds(s, FALSE, x)
          IN [returned |-> q.returned, ret |-> q.ret, checked |-> FALSE, code |-> 0,
              log |-> <<"query">> \o q.log, codes |-> <<>>, s |-> q.s,
              reported |-> q.reported, rnorms |-> NoNorms,
              converted |-> <<>>, work |-> <<>>]
     ELSE IF svds_rejected(code) # 0
     THEN [returned |-> TRUE, ret |-> svds_rejected(code), checked |-> TRUE,
           code |-> code, log |-> <<>>, codes |-> <<>>, s |-> s, reported |-> <<>>,
           rnorms |-> NoNorms, converted |-> <<>>, work |-> <<>>]
     ELSE LET w == allocate_workspace_svds(s, TRUE, x)
          IN IF ~w.returned
             THEN [returned |-> FALSE, ret |-> 0, checked |-> TRUE, code |-> code,
                   log |-> <<"allocate">> \o w.log, codes |-> <<>>, s |-> w.s,
                   reported |-> w.reported, rnorms |-> NoNorms,
                   converted |-> <<>>, work |-> <<>>]
             ELSE IF w.ret # 0
             THEN [returned |-> TRUE, ret |-> ALLOCATE_WORKSPACE_FAILURE,
                   checked |-> TRUE, code |-> code, log |-> <<"allocate">> \o w.log,
                   codes |-> <<>>, s |-> w.s, reported |-> w.reported, rnorms |-> NoNorms,
                   converted |-> <<>>, work |-> <<>>]
             ELSE LET r == svds_stages(w.s, x, <<"allocate">> \o w.log)
                  IN [returned |-> TRUE, ret |-> r.ret, checked |-> TRUE, code |-> code,
                      log |-> r.log, codes |-> r.codes, s |-> w.s,
                      reported |-> w.reported, rnorms |-> r.rnorms,
                      converted |-> r.converted, work |-> r.work]

(***************************************************************************)
(* The state of a call of restart_dprimme: pc says whether the call is     *)
(* pending or has returned; primme and args are the parameters and the     *)
(* arguments (on entry while pc = "call", as the call left them            *)
(* afterwards); entry keeps the arguments of the call; ret is the return   *)
(* value; sel, lock and proj are what the three stages computed.           *)
(***************************************************************************)
VARIABLES pc, primme, args, entry, ret, sel, lock, proj

restartVars == <<pc, primme, args, entry, ret, sel, lock, proj>>

(***************************************************************************)
(* The state of a call of dtr_dprimme taken alone: dtrPc says whether the  *)
(* call is pending or has returned, dtrArgs holds the parameters and the   *)
(* arguments of the call, dtrOut what the call returned and left in hVecs, *)
(* hVals and flags.                                                        *)
(***************************************************************************)
VARIABLES dtrPc, dtrArgs, dtrOut

dtrVars == <<dtrPc, dtrArgs, dtrOut>>

(***************************************************************************)
(* The state of a call of zprimme_svds: svdsPc says whether the call is    *)
(* pending or over, svdsIn is the call, svdsOut what it did and returned.  *)
(***************************************************************************)
VARIABLES svdsPc, svdsIn, svdsOut

svdsVars == <<svdsPc, svdsIn, svdsOut>>

vars == <<restartVars, dtrVars, svdsVars>>

Idle == [stage |-> "none"]

RestartIdle ==
  /\ pc = "idle"
  /\ primme = Idle
  /\ args = Idle
  /\ entry = Idle
  /\ ret = 0
  /\ sel = Idle
  /\ lock = Idle
  /\ proj = Idle

DtrIdle ==
  /\ dtrPc = "idle"
  /\ dtrArgs = Idle
  /\ dtrOut = Idle

SvdsIdle ==
  /\ svdsPc = "idle"
  /\ svdsIn = Idle
  /\ svdsOut = Idle

\* Rayleigh-Ritz, thick restart, no skew projector: the sizes, with every set of
\* flags.  The subspace is exhausted when the full basis spans the n dimensions.
SizeCall ==
  \E mbasis \in {MaxBasis - 1, MaxBasis} :
  \E bs \in 1 .. mbasis, mblock \in {1, min(MaxBlock, mbasis - 1)} :
  \E fl \in FlagSets(bs, mbasis), nEv \in {1, MaxEvals}, nPrev \in {0, 1, MaxPrev},
     n \in IF bs = mbasis THEN {mbasis, mbasis + 3} ELSE {mbasis + 3},
     minRS \in IF bs > mbasis - mblock THEN 1 .. (mbasis - 1) ELSE {1} :
    LET p == Params(n, nEv, mbasis, mblock, minRS, "primme_thick", "primme_proj_RR", 0, <<>>)
    IN /\ primme = p
       /\ args = Args(p, bs, fl, Spread(bs), {}, nPrev, 0, FALSE, 0 - 1, 0, 0)

\* the same with Ritz values that have drifted from evals, and with arbitrary
\* vectors; the full basis spans the whole space when n is its size
DriftCall ==
  \E bs \in 1 .. (MaxBasis - 1), nEv \in {1, MaxEvals}, nPrev \in 0 .. 1,
     numArb \in 0 .. MaxArb, n \in {MaxBasis - 1, MaxBasis + 2} :
  \E fl \in FlagSets(bs, MaxBasis - 1) :
  \E dr \in Drifts(fl, bs, nEv) :
    LET p == Params(n, nEv, MaxBasis - 1, 1, 1, "primme_thick", "primme_proj_RR",
                    0, <<>>)
    IN /\ primme = p
       /\ args = Args(p, bs, fl, Spread(bs), dr, nPrev, numArb, FALSE, 0 - 1, 0, 0)

\* full basis, thick restart: every projection, with and without the skew projector
TargetShifts(nts) == {[i \in 0 .. (nts - 1) |-> 0], [i \in 0 .. (nts - 1) |-> i]}

ProjBasis == MaxBasis - 1

ProjectionCall ==
  \E nEv \in {1, MaxEvals}, fl \in FlagSets(ProjBasis, ProjBasis), nts \in 1 .. 2 :
  \E pr \in {"primme_proj_RR", "primme_proj_refined", "primme_proj_harmonic"},
     nPrev \in 0 .. 1, hasHat \in BOOLEAN, sh \in TargetShifts(nts),
     tsi \in (0 - 1) .. (nts - 1), stored \in {0, CountConverged(fl, ProjBasis, nEv)} :
  \E nOC \in IF hasHat THEN 0 .. MaxOrthoConst ELSE {0} :
    LET rr == pr = "primme_proj_RR"
        p == [Params(ProjBasis + 3, nEv, ProjBasis, 1, 1, "primme_thick", pr,
                     IF rr THEN 0 ELSE nts, IF rr THEN <<>> ELSE sh)
                EXCEPT !.target = IF rr /\ nts = 1 THEN "primme_smallest"
                                  ELSE "primme_closest_abs",
                       !.numOrthoConst = nOC]
    IN /\ primme = p
       /\ args = Args(p, ProjBasis, fl, Spread(ProjBasis), {}, nPrev, 0, hasHat,
                      IF rr THEN 0 - 1 ELSE tsi, IF hasHat THEN stored ELSE 0, 0)

\* full basis of DtrBasis vectors, dynamic thick restart: Ritz values with gaps of 1 and 4
DtrBasis == MaxBasis + 3

Profile(big, bs) == [i \in 0 .. (bs - 1) |-> i + 3 * Cardinality({j \in big : j < i})]

DtrCall ==
  \E mblock \in {1, MaxBlock}, minRS \in 1 .. 2, nPrev \in 0 .. 1,
     fl \in FlagSets(1, DtrBasis), big \in SUBSET (0 .. (DtrBasis - 2)), iev0 \in 0 .. 1,
     n \in {DtrBasis, DtrBasis + 3} :
    LET p == Params(n, 1, DtrBasis, mblock, minRS, "primme_dtr", "primme_proj_RR",
                    0, <<>>)
    IN /\ primme = p
       /\ args = Args(p, DtrBasis, fl, Profile(big, DtrBasis), {}, nPrev, 0, FALSE, 0 - 1, 0,
                      iev0)

InitRestart ==
  /\ pc = "call"
  /\ SizeCall \/ DriftCall \/ ProjectionCall \/ DtrCall
  /\ entry = args
  /\ ret = 0
  /\ sel = Idle
  /\ lock = Idle
  /\ proj = Idle
  /\ DtrIdle
  /\ SvdsIdle

\* The outcomes of the routines outside this file that the call can meet.  A
\* failure ends the stage it occurs in, so at most one routine fails in a call.
Code(fail, name) == IF fail = name THEN 0 - 1 ELSE 0

Outcome(g, fail) ==
  [g |-> g, ortho |-> Code(fail, "ortho"), vwxr |-> Code(fail, "vwxr"),
   solve |-> Code(fail, "solve"), updQ |-> Code(fail, "updQ"),
   updProj |-> Code(fail, "updProj"), udu |-> Code(fail, "udu")]

Failures(p, a) ==
  {"none", "ortho", "vwxr", "solve"}
    \cup (IF p.projection = "primme_proj_RR" THEN {} ELSE {"updQ"})
    \cup (IF p.projection = "primme_proj_harmonic" THEN {"updProj"} ELSE {})
    \cup (IF a.evecsHat THEN {"udu"} ELSE {})

Outcomes(p, a) == {Outcome(g, fail) : g \in Garbage, fail \in Failures(p, a)}

Restart ==
  /\ pc = "call"
  /\ \E x \in Outcomes(primme, args) :
     \E sl \in {restart_select(args, primme)} :
     \E lk \in {restart_soft_locking_dprimme(restart_lockArgs(args, sl), args.basisSize,
                   args.evals, args.resNorms, args.numArbitraryVecs, args.evecsHat, x,
                   primme)} :
     \E pj \in {restart_projection_dprimme(lk, args.basisSize, args.targetShiftIndex,
                   args.evecsHat, x, primme, args.R, args.hSVals, args.H, args.UDU)} :
     \E r \in {restart_dprimme(args, sl, lk, pj, x, primme)} :
       /\ args' = r.args
       /\ ret' = r.ret
       /\ sel' = r.sel
       /\ lock' = r.lock
       /\ proj' = r.proj
  /\ pc' = "return"
  /\ UNCHANGED <<primme, entry>>
  /\ UNCHANGED <<dtrVars, svdsVars>>

NextRestart == Restart

SpecRestart == InitRestart /\ [][NextRestart]_vars

(***************************************************************************)
(* The calls of dtr_dprimme that restart_dprimme can make: a full basis    *)
(* (basisSize > maxBasisSize - maxBlockSize), numFree = numPrevRetained +  *)
(* max(3, maxBlockSize), sorted Ritz values that may coincide, iev[0] the  *)
(* pair that the block targets.  hVecs has basisSize columns of ldhVecs    *)
(* cells; a leading dimension above basisSize is explored without locking. *)
(***************************************************************************)
Gaps(bs) == [0 .. (bs - 2) -> {0, 1, 4}]

Values(gap, bs) == [i \in 0 .. (bs - 1) |-> IF i = 0 THEN 0 ELSE gap[i - 1] + 4 * i - 4]

InitDtr ==
  /\ RestartIdle
  /\ SvdsIdle
  /\ dtrPc = "call"
  /\ dtrOut = Idle
  /\ \E bs \in {MaxBasis, DtrBasis}, mblock \in {1, MaxBlock}, minRS \in 1 .. 2,
        nPrev \in 0 .. 1, locking \in BOOLEAN, iev0 \in 0 .. 1 :
     \E fl \in FlagSets(2, bs), gap \in Gaps(bs),
        nEv \in IF locking THEN {1, MaxEvals} ELSE {1},
        pad \in IF locking \/ nPrev > 0 \/ iev0 > 0 THEN {0} ELSE 0 .. 1 :
       dtrArgs = [p |-> [Params(bs + 3, nEv, bs, mblock, minRS, "primme_dtr",
                                "primme_proj_RR", 0, <<>>) EXCEPT !.locking = locking],
                  numLocked |-> 0,
                  basisSize |-> bs,
                  ldhVecs |-> bs + pad,
                  numFree |-> dtr_numFree(nPrev, [maxBlockSize |-> mblock]),
                  iev0 |-> iev0,
                  flags |-> fl,
                  hVals |-> [i \in 0 .. (bs - 1) |-> Ritz(Values(gap, bs)[i])],
                  hVecs |-> [i \in 0 .. (bs - 1) |-> Col("ritz", i)]]

Dtr ==
  /\ dtrPc = "call"
  /\ dtrPc' = "return"
  /\ dtrOut' = dtr_dprimme(dtrArgs.numLocked, dtrArgs.hVecs, dtrArgs.hVals, dtrArgs.flags,
                           dtrArgs.basisSize, dtrArgs.numFree, dtrArgs.iev0, dtrArgs.p,
                           dtrArgs.ldhVecs)
  /\ UNCHANGED dtrArgs
  /\ UNCHANGED <<restartVars, svdsVars>>

NextDtr == Dtr

SpecDtr == InitDtr /\ [][NextDtr]_vars

(***************************************************************************)
(* The calls of zprimme_svds: a structure that passes the validation, with *)
(* up to MaxWrong of its fields or of the arguments changed, so that       *)
(* several conditions of the validation can fail at once.                  *)
(***************************************************************************)
MaxWrong == 3
MaxCode == 3
MaxMatvec == 3

SvdsMethods == {<<primme_svds_op_AtA, primme_svds_op_none>>,
                <<primme_svds_op_AtA, primme_svds_op_augmented>>,
                <<primme_svds_op_AAt, primme_svds_op_augmented>>,
                <<primme_svds_op_augmented, primme_svds_op_none>>}

\* the fields of a stage's primme_params that the file reads; its sizes are stale
SvdsStage(builtin, mblock) ==
  [builtinMatvec |-> builtin, maxBlockSize |-> mblock, intWorkSize |-> 7,
   realWorkSize |-> 7]

SvdsValid(mm) ==
  [s |-> [isNull |-> FALSE, n |-> 2, m |-> 3, numProcs |-> 1, matrixMatvec |-> TRUE,
          applyPreconditioner |-> TRUE, precondition |-> 0, globalSumDouble |-> TRUE,
          numSvals |-> 1, target |-> "primme_svds_smallest", method |-> mm[1],
          methodStage2 |-> mm[2], printLevel |-> 0, mLocal |-> 3, nLocal |-> 2,
          realWork |-> FALSE, realWorkSize |-> 0, intWork |-> FALSE, intWorkSize |-> 0,
          primme |-> SvdsStage(TRUE, 1), primmeStage2 |-> SvdsStage(FALSE, 1)],
   svals |-> TRUE, svecs |-> TRUE, resNorms |-> TRUE]

SvdsChanges ==
  {<<"isNull", TRUE>>, <<"n", 0>>, <<"m", 0>>, <<"numProcs", 0>>, <<"numProcs", 2>>,
   <<"matrixMatvec", FALSE>>, <<"applyPreconditioner", FALSE>>, <<"precondition", 1>>,
   <<"globalSumDouble", FALSE>>, <<"numSvals", 3>>, <<"numSvals", 0>>,
   <<"target", "primme_svds_default">>, <<"method", primme_svds_op_none>>,
   <<"methodStage2", primme_svds_op_AtA>>, <<"methodStage2", primme_svds_op_augmented>>,
   <<"printLevel", 0 - 1>>, <<"printLevel", 6>>, <<"workspace", 1>>,
   <<"workspace", 100>>, <<"primme", SvdsStage(FALSE, 1)>>, <<"primme", SvdsStage(TRUE, 2)>>,
   <<"svals", FALSE>>, <<"svecs", FALSE>>, <<"resNorms", FALSE>>, <<"query", FALSE>>}

SvdsChange(a, c) ==
  IF c[1] \in {"svals", "svecs", "resNorms"}
  THEN [a EXCEPT ![c[1]] = c[2]]
  ELSE IF c[1] = "query"
  THEN [a EXCEPT !.svals = c[2], !.svecs = c[2], !.resNorms = c[2]]
  ELSE IF c[1] = "workspace"
  THEN [a EXCEPT !.s = [a.s EXCEPT !.realWork = TRUE, !.realWorkSize = c[2],
                                   !.intWork = TRUE, !.intWorkSize = c[2]]]
  ELSE [a EXCEPT !.s = [a.s EXCEPT ![c[1]] = c[2]]]

RECURSIVE SvdsCalls(_)
SvdsCalls(k) ==
  IF k = 0 THEN {SvdsValid(mm) : mm \in SvdsMethods}
  ELSE LET less == SvdsCalls(k - 1)
       IN less \cup {SvdsChange(a, c) : a \in less, c \in SvdsChanges}

\* what the routines outside the file do: the reads through a NULL structure, the
\* assertions, the allocation, and the codes of the two calls of zprimme, 0 or
\* the negative of an error number, and the number of columns of a product that
\* zprimme asks for
ZprimmeCodes == (0 - MaxCode) .. 0

\* the sizes that a workspace query of zprimme reports
SvdsNeeds == {[int |-> 1, real |-> 2], [int |-> 2, real |-> 60]}

\* the outcomes that the call can meet: a workspace query meets no allocation and
\* no stage, a rejected call nothing but the reads of the structure
SvdsOutcomes(a) ==
  IF ~a.svals /\ ~a.svecs /\ ~a.resNorms
  THEN [deref : {"crash", "read"}, ndebug : BOOLEAN, valloc : {"memory"},
        need1 : SvdsNeeds, need2 : SvdsNeeds, stage1 : {0}, stage2 : {0},
        block : {0}]
  ELSE IF primme_svds_check_input(a.svals, a.svecs, a.resNorms, a.s) # 0
  THEN [deref : {"crash", "read"}, ndebug : {FALSE}, valloc : {"memory"},
        need1 : SvdsNeeds, need2 : {[int |-> 1, real |-> 2]}, stage1 : {0},
        stage2 : {0}, block : {0}]
  ELSE [deref : {"read"}, ndebug : BOOLEAN, valloc : {"NULL", "memory"},
        need1 : SvdsNeeds, need2 : SvdsNeeds, stage1 : ZprimmeCodes,
        stage2 : ZprimmeCodes, block : 0 .. MaxMatvec]

InitSvds ==
  /\ RestartIdle
  /\ DtrIdle
  /\ svdsPc = "call"
  /\ svdsIn \in SvdsCalls(MaxWrong)
  /\ svdsOut = Idle

Svds ==
  /\ svdsPc = "call"
  /\ svdsPc' = "over"
  /\ \E x \in SvdsOutcomes(svdsIn) : svdsOut' = zprimme_svds(svdsIn, x)
  /\ UNCHANGED svdsIn
  /\ UNCHANGED <<restartVars, dtrVars>>

NextSvds == Svds

SpecSvds == InitSvds /\ [][NextSvds]_vars

(***************************************************************************)
(* Properties of restart_dprimme.                                          *)
(***************************************************************************)
Returned == pc = "return"

ProjectionRan == Returned /\ proj.stage # "none"

\* the cases of the call, from its arguments
Exhausted == entry.basisSize + entry.numLocked + primme.numOrthoConst >= primme.n

NotFull == ~Exhausted /\ entry.basisSize <= primme.maxBasisSize - primme.maxBlockSize

FullThick ==
  /\ ~Exhausted
  /\ entry.basisSize > primme.maxBasisSize - primme.maxBlockSize
  /\ primme.scheme # "primme_dtr"

\* C1: every failure of the projection stage is surfaced: restart returns
\* RESTART_H_FAILURE when the projected problem fails, UDUDECOMPOSE_FAILURE when
\* the factorisation of M fails, and never the success value after such a failure.
C1_ProjectionFailureSurfaced ==
  ProjectionRan =>
    /\ proj.ret = RESTART_H_FAILURE => ret = RESTART_H_FAILURE
    /\ proj.ret = UDUDECOMPOSE_FAILURE => ret = UDUDECOMPOSE_FAILURE
    /\ proj.ret # 0 => ret # 0

\* C2: on success restart_dprimme returns the final restart size, a value > 0 equal
\* to the number of columns of the restarted basis; a failure is returned as one
\* of the negative codes -2, -4, -5.
C2_ReturnsRestartSize ==
  Returned =>
    \/ ret > 0 /\ ret = lock.restartSize
    \/ ret \in {RESTART_H_FAILURE, UDUDECOMPOSE_FAILURE, PSEUDOLOCK_FAILURE}

\* C3: on a basis that is not full (basisSize <= maxBasisSize - maxBlockSize,
\* subspace not exhausted) restart reports restartSize = basisSize, for every
\* incoming numPrevRetained, and leaves V, W, hVecs and hVals as they were.
C3_Idempotence ==
  Returned /\ NotFull /\ ret = 0 /\ proj.ret = 0 =>
    /\ args.restartSizeOutput = entry.basisSize
    /\ args.V = entry.V
    /\ args.W = entry.W
    /\ args.hVecs = entry.hVecs
    /\ args.hVals = entry.hVals

\* the part of C3 on the size alone
C3_SizeIsBasisSize ==
  Returned /\ NotFull /\ ret = 0 /\ proj.ret = 0 =>
    args.restartSizeOutput = entry.basisSize

\* the pair i is flagged converged on entry and its Ritz value has left evals[i]
\* by more than resNorms[i]
Drifted(i) ==
  /\ i < primme.numEvals
  /\ i < entry.basisSize
  /\ entry.flags[i] # UNCONVERGED
  /\ soft_drifted(entry.hVals, entry.evals, entry.resNorms, i)

NoneToRetarget == \A i \in 0 .. (entry.basisSize - 1) : entry.flags[i] # UNCONVERGED

\* C6: when a flag claims CONVERGED, the eval has drifted beyond resNorms and no
\* UNCONVERGED pair is left in the basis to re-target, restart returns the
\* pseudolocking code -5 instead of success.
C6_PseudolockingCode ==
  Returned /\ ~Exhausted /\ NoneToRetarget
           /\ (\E i \in 0 .. (entry.basisSize - 1) : Drifted(i)) =>
    ret = PSEUDOLOCK_FAILURE

\* the positions of hVals that solve_H_dprimme computed anew in restart_RR
Resolved(i) == proj.at <= i /\ i < proj.at + lock.numPrevRetained

RRSucceeded ==
  Returned /\ primme.projection = "primme_proj_RR" /\ ret = 0 /\ proj.ret = 0

\* pre[restartPerm[hVecsPerm[i]]], read with the indices of the code
Composed(pre, i) ==
  /\ i \in DOMAIN lock.hVecsPerm
  /\ lock.hVecsPerm[i] \in DOMAIN lock.restartPerm
  /\ lock.restartPerm[lock.hVecsPerm[i]] \in 0 .. (entry.basisSize - 1)
  /\ args.hVals[i] = pre[lock.restartPerm[lock.hVecsPerm[i]]]

\* C7: after a restart with Rayleigh-Ritz projection, post hVals[i] =
\* pre hVals[restartPerm[hVecsPerm[i]]] for every i in [0, restartSize) outside
\* the re-solved block of retained previous vectors.
C7_PermutationConsistency ==
  RRSucceeded =>
    \A i \in 0 .. (lock.restartSize - 1) : ~Resolved(i) => Composed(entry.hVals, i)

\* the flags that the special case flips: the first ToFlip UNCONVERGED ones
UnconvergedOnEntry == {i \in 0 .. (entry.basisSize - 1) : entry.flags[i] = UNCONVERGED}

ToFlip == min(Cardinality(UnconvergedOnEntry), max(0, primme.numEvals - entry.numConverged))

Flipped == {i \in UnconvergedOnEntry : Cardinality({j \in UnconvergedOnEntry : j < i}) < ToFlip}

\* C4: if basisSize + numLocked + numOrthoConst >= n on entry, restart flips
\* UNCONVERGED flags to CONVERGED in increasing index order, counting each in
\* numConverged, until numConverged reaches numEvals or the basis ends; the restart
\* size is basisSize, numPrevRetained is 0, and neither the DTR selector nor the
\* minRestartSize rule is applied.
C4_ExhaustedSubspace ==
  Returned /\ Exhausted =>
    /\ sel.flags = [i \in DOMAIN entry.flags |->
                      IF i \in Flipped THEN CONVERGED ELSE entry.flags[i]]
    /\ sel.numConverged = entry.numConverged + ToFlip
    /\ sel.restartSize = entry.basisSize
    /\ sel.numPrevRetained = 0
    /\ sel.hVals = entry.hVals
    /\ sel.hVecs = entry.hVecs
    /\ lock.restartSize = entry.basisSize
    /\ args.numPrevRetained = 0
    /\ args.flags = sel.flags
    /\ ret = 0 => args.restartSizeOutput = entry.basisSize

\* an exhausted call that flips a flag, stops at numEvals before the basis ends,
\* and whose minRestartSize is smaller than the basis
C4_Witness ==
  /\ Returned
  /\ Exhausted
  /\ ToFlip > 0
  /\ ToFlip < Cardinality(UnconvergedOnEntry)
  /\ entry.numPrevRetained > 0
  /\ primme.minRestartSize < entry.basisSize
  /\ ret = 0

DtrReturned == dtrPc = "return"

SvdsReturned == svdsPc = "over" /\ svdsOut.returned

StagesRun == {svdsOut.log[i] : i \in DOMAIN svdsOut.log} \cap {"stage1", "stage2"}

InComposite(r, hundred) == 0 - hundred - 99 <= r /\ r <= 0 - hundred

\* C9: stage 2 of zprimme_svds runs only if stage 1 returned 0 and methodStage2 is
\* not none; a non-zero code r of stage 1 is returned as r - 100, in -199..-100,
\* and stage 2 does not run; a non-zero code r of stage 2 is returned as r - 200,
\* in -299..-200; 0 is returned only when every stage that ran returned 0.
C9_StageCodes ==
  SvdsReturned =>
    LET codes == svdsOut.codes
    IN /\ ("stage2" \in StagesRun) = (Len(codes) = 2)
       /\ ("stage1" \in StagesRun) = (Len(codes) >= 1)
       /\ "stage2" \in StagesRun =>
            /\ codes[1] = 0
            /\ svdsIn.s.methodStage2 # primme_svds_op_none
       /\ Len(codes) >= 1 /\ codes[1] # 0 =>
            /\ svdsOut.ret = codes[1] - 100
            /\ InComposite(svdsOut.ret, 100)
            /\ "stage2" \notin StagesRun
       /\ Len(codes) = 2 /\ codes[2] # 0 =>
            /\ svdsOut.ret = codes[2] - 200
            /\ InComposite(svdsOut.ret, 200)
       /\ svdsOut.ret = 0 =>
            /\ "stage1" \in StagesRun
            /\ \A i \in DOMAIN codes : codes[i] = 0

\* both stages ran and the second failed
C9_Witness ==
  /\ SvdsReturned
  /\ Len(svdsOut.codes) = 2
  /\ svdsOut.codes[2] # 0
  /\ svdsOut.ret = svdsOut.codes[2] - 200

\* the conditions of the validation, in the order of their codes
SvdsConditions ==
  LET s == svdsIn.s
  IN << <<4, s.isNull>>,
        <<5, s.n <= 0 \/ s.m <= 0>>,
        <<6, s.numProcs < 1>>,
        <<7, ~s.matrixMatvec>>,
        <<8, ~s.applyPreconditioner /\ s.precondition = 1>>,
        <<9, s.numProcs > 1 /\ ~s.globalSumDouble>>,
        <<10, s.numSvals > min(s.n, s.m)>>,
        <<11, s.numSvals < 1>>,
        <<13, s.target \notin {"primme_svds_smallest", "primme_svds_largest",
                               "primme_svds_closest_abs"}>>,
        <<14, s.method \notin {primme_svds_op_AtA, primme_svds_op_AAt,
                               primme_svds_op_augmented}>>,
        <<15, ~ \/ s.method = primme_svds_op_augmented
                   /\ s.methodStage2 = primme_svds_op_none
                \/ s.method # primme_svds_op_augmented
                   /\ s.methodStage2 \in {primme_svds_op_none, primme_svds_op_augmented}>>,
        <<16, s.printLevel \notin 0 .. 5>>,
        <<17, ~svdsIn.svals>>,
        <<18, ~svdsIn.svecs>>,
        <<19, ~svdsIn.resNorms>> >>

SvdsViolated == {i \in DOMAIN SvdsConditions : SvdsConditions[i][2]}

FirstViolated ==
  IF SvdsViolated = {} THEN 0
  ELSE 0 - SvdsConditions[CHOOSE i \in SvdsViolated : \A j \in SvdsViolated : i <= j][1]

\* C10: the validation of zprimme_svds yields 0 only if none of its conditions is
\* violated, and otherwise the code of the first violated condition in the order
\* -4, -5, -6, -7, -8, -9, -10, -11, -13, -14, -15, -16, -17, -18, -19; on a
\* non-zero code zprimme_svds returns that code, allocates no workspace and runs
\* no stage.
C10_Validation ==
  svdsPc = "over" /\ svdsOut.checked =>
    /\ svdsOut.code = FirstViolated
    /\ svdsOut.code # 0 =>
         /\ svdsOut.returned
         /\ svdsOut.ret = svdsOut.code
         /\ svdsOut.log = <<>>
         /\ svdsOut.codes = <<>>

\* a call rejected for its methods although later conditions are violated too
C10_Witness ==
  /\ svdsPc = "over"
  /\ svdsOut.checked
  /\ svdsOut.returned
  /\ svdsOut.ret = 0 - 15
  /\ Cardinality(SvdsViolated) >= 3


(***************************************************************************)
(* The workspace-size query of zprimme_svds                                *)
(***************************************************************************)
SvdsQuery ==
  svdsPc = "over" /\ ~svdsIn.svals /\ ~svdsIn.svecs /\ ~svdsIn.resNorms

\* the scratch of the built-in matvec that stage 1 adds to its real size
MatvecScratch(s) ==
  IF s.primme.builtinMatvec /\ s.method \in {primme_svds_op_AtA, primme_svds_op_AAt}
  THEN s.primme.maxBlockSize * SizeofComplexZ *
         (IF s.method = primme_svds_op_AtA THEN s.mLocal ELSE s.nLocal)
  ELSE 0

SvdsEvents == {svdsOut.log[k] : k \in 1..Len(svdsOut.log)}

\* C11: a call of zprimme_svds with svals, svecs and resNorms all NULL returns 1
\* with intWorkSize and realWorkSize set to the maximum over the configured
\* stages (the real size of stage 1 with the scratch of the built-in matvec),
\* allocates and frees nothing, runs no stage and leaves the structures of the
\* two stages as they were.
C11_WorkspaceQuery ==
  SvdsQuery =>
    /\ svdsOut.returned
    /\ svdsOut.ret = 1
    /\ LET s == svdsIn.s
           rep == svdsOut.reported
           none == [int |-> 0, real |-> 0]
           r1 == IF s.method # primme_svds_op_none THEN rep[1] ELSE none
           r2 == IF s.methodStage2 # primme_svds_op_none THEN rep[Len(rep)] ELSE none
           real1 == IF s.method # primme_svds_op_none
                    THEN r1.real + MatvecScratch(s) ELSE 0
       IN /\ svdsOut.s.intWorkSize = max(r1.int, r2.int)
          /\ svdsOut.s.realWorkSize = max(real1, r2.real)
          /\ svdsOut.s.primme = s.primme
          /\ svdsOut.s.primmeStage2 = s.primmeStage2
          /\ svdsOut.s.realWork = s.realWork
          /\ svdsOut.s.intWork = s.intWork
    /\ SvdsEvents \cap {"valloc", "free", "allocate", "stage1", "stage2"} = {}

\* the same for the configurations that the validation of a full call accepts
C11_ValidQuery ==
  (SvdsQuery /\ ~svdsIn.s.isNull
     /\ svdsIn.s.methodStage2 \notin {primme_svds_op_AtA, primme_svds_op_AAt})
    => C11_WorkspaceQuery

C11_Witness ==
  /\ SvdsQuery /\ svdsOut.returned /\ svdsOut.ret = 1
  /\ MatvecScratch(svdsIn.s) > 0
  /\ svdsIn.s.methodStage2 # primme_svds_op_none
  /\ svdsOut.s.realWorkSize > svdsOut.reported[2].real


(***************************************************************************)
(* The failure of the locking stage                                        *)
(***************************************************************************)
LockingFailed == pc = "return" /\ lock.ret # 0

\* C12: when the locking stage of restart_dprimme returns a code that is not 0,
\* the call returns that code, runs no projection restart, leaves prevRitzVals
\* and numPrevRitzVals as they were and does not write restartSizeOutput.
C12_LockingFailure ==
  LockingFailed =>
    /\ ret = lock.ret
    /\ proj.stage = "none"
    /\ args.prevRitzVals = entry.prevRitzVals
    /\ args.numPrevRitzVals = entry.numPrevRitzVals
    /\ args.targetShiftIndex = entry.targetShiftIndex
    /\ args.restartSizeOutput = entry.restartSizeOutput

\* a failed locking stage in a call that would have permuted prevRitzVals
C12_Witness ==
  /\ LockingFailed
  /\ primme.target = "primme_closest_abs"
  /\ lock.restartSize # entry.restartSizeOutput
  /\ lock.restartSize # entry.numPrevRitzVals


(***************************************************************************)
(* The block size at the return of the soft-locking restart                *)
(***************************************************************************)
LockingSucceeded == pc = "return" /\ lock.ret = 0

\* the block size min(maxBlockSize, numEvals - numConverged + 1,
\* maxBasisSize - restartSize) that the call used
UsedBlockSize ==
  min(min(primme.maxBlockSize, primme.numEvals - sel.numConverged + 1),
      primme.maxBasisSize - lock.restartSize)

\* C13: on every successful return of the soft-locking restart ievSize is 0,
\* whatever block size was used.
C13_IevSizeZero ==
  LockingSucceeded => lock.ievSize = 0 /\ args.ievSize = 0

C13_Witness ==
  LockingSucceeded /\ UsedBlockSize = MaxBlock /\ lock.ievSize = 0


(***************************************************************************)
(* R after the incremental update of restart_qr                            *)
(***************************************************************************)
Incremental == pc = "return" /\ proj.path = "incremental" /\ proj.inner = 0

InPrevBlock(j) ==
  proj.indexOfPreviousVecs <= j /\ j < proj.indexOfPreviousVecs + proj.numPrevRetained

\* C14: after the refined or harmonic restart on the incremental path the
\* leading restartSize x restartSize part of R is upper triangular: a column
\* outside the block of the previous vectors holds hSVals[j] on the diagonal and
\* zeros elsewhere, a column of the block holds the triangular factor from the
\* first row of the block to the diagonal and zeros above and below.
C14_RUpperTriangular ==
  Incremental =>
    \A j \in 0 .. (lock.restartSize - 1) : \A i \in 0 .. (lock.restartSize - 1) :
      args.R[j][i] =
        IF ~InPrevBlock(j) THEN (IF i = j THEN proj.hSVals1[j] ELSE tzero)
        ELSE IF InPrevBlock(i) /\ i <= j THEN Col("tri", j - proj.indexOfPreviousVecs)
        ELSE tzero

\* the same for the columns outside the block and for the rows of the block
C14_BlockAndDiagonal ==
  Incremental =>
    \A j \in 0 .. (lock.restartSize - 1) : \A i \in 0 .. (lock.restartSize - 1) :
      (~InPrevBlock(j) \/ i < proj.indexOfPreviousVecs + proj.numPrevRetained) =>
        args.R[j][i] =
          IF ~InPrevBlock(j) THEN (IF i = j THEN proj.hSVals1[j] ELSE tzero)
          ELSE IF InPrevBlock(i) /\ i <= j THEN Col("tri", j - proj.indexOfPreviousVecs)
          ELSE tzero

C14_Witness ==
  /\ Incremental
  /\ primme.projection = "primme_proj_refined"
  /\ proj.numPrevRetained > 0
  /\ proj.indexOfPreviousVecs + proj.numPrevRetained < lock.restartSize


(***************************************************************************)
(* restartPerm as the loop of restart_soft_locking_dprimme builds it       *)
(***************************************************************************)
Slots == 0 .. (entry.basisSize - 1)

UnconvergedAtLoop == {i \in Slots : lock.flags[i] = UNCONVERGED}

CandidateSlots == lock.left .. (lock.left + lock.numCandidates - 1)

\* the indices placed in the candidate slots, and the others
Candidates == {lock.restartPerm[s] : s \in CandidateSlots \cap Slots}

Rank(set, i) == Cardinality({u \in set : u < i})

\* C15: restartPerm is a permutation of 0 .. basisSize - 1 written inside its
\* basisSize cells; the candidate slots left .. left + numCandidates - 1 hold
\* the first UNCONVERGED indices in increasing order, so that the assertion on
\* iev holds; the other indices fill the slots before left and then the slots
\* after the candidates, in increasing order.
C15_RestartPerm ==
  pc = "return" =>
    /\ lock.slots \subseteq Slots
    /\ CandidateSlots \subseteq Slots
    /\ {lock.restartPerm[s] : s \in Slots} = Slots
    /\ \A j \in 0 .. (lock.numCandidates - 1) :
         /\ lock.restartPerm[lock.left + j] \in UnconvergedAtLoop
         /\ Rank(UnconvergedAtLoop, lock.restartPerm[lock.left + j]) = j
    /\ lock.ievOk
    /\ \A s \in Slots \ CandidateSlots :
         Rank(Slots \ Candidates, lock.restartPerm[s]) =
           IF s < lock.left THEN s ELSE s - lock.numCandidates

\* the same for the calls where at least numCandidates flags are UNCONVERGED, the
\* candidates fit before the end of the restarted basis and after its start
C15_EnoughUnconverged ==
  (pc = "return" /\ Cardinality(UnconvergedAtLoop) >= lock.numCandidates
     /\ lock.restartSize <= entry.basisSize /\ lock.indexOfPreviousVecs >= 0)
    => C15_RestartPerm

C15_Witness ==
  /\ pc = "return"
  /\ lock.numCandidates = 2
  /\ lock.left > 0
  /\ lock.left + lock.numCandidates < entry.basisSize
  /\ Cardinality(UnconvergedAtLoop) > lock.numCandidates
  /\ lock.flags[0] = UNCONVERGED


(***************************************************************************)
(* hVecsPerm at the return of restart_soft_locking_dprimme                 *)
(***************************************************************************)
\* the candidate slots that hold an arbitrary vector
ArbitrarySlots ==
  {s \in CandidateSlots \cap Slots : lock.restartPerm[s] < entry.numArbitraryVecs}

\* C16: hVecsPerm is the inverse of restartPerm, except that every arbitrary
\* vector (original index below numArbitraryVecs) in the candidate slots is
\* moved to the start of the block of the previous vectors, the block following
\* it, and the returned numPrevRetained is increased by the number of vectors
\* moved.
C16_ArbitraryRelocated ==
  LockingSucceeded =>
    LET moved == Cardinality(ArbitrarySlots)
        idx == lock.indexOfPreviousVecs
    IN /\ lock.numPrevRetained = lock.numPrevRetainedCapped + moved
       /\ \A s \in Slots :
            lock.restartPerm[s] \in Slots =>
              lock.hVecsPermSoft[lock.restartPerm[s]] =
                IF s \in ArbitrarySlots THEN idx + (s - lock.left)
                ELSE IF idx <= s /\ s < lock.left THEN s + moved
                ELSE s

\* what the code does: hVecsPerm is the inverse of restartPerm and numPrevRetained
\* is the capped value, whether or not a candidate is an arbitrary vector
C16_NothingRelocated ==
  (LockingSucceeded /\ lock.slots \subseteq Slots /\ CandidateSlots \subseteq Slots
     /\ Cardinality(UnconvergedAtLoop) >= lock.numCandidates)
    => /\ lock.numPrevRetained = lock.numPrevRetainedCapped
       /\ \A s \in Slots : lock.hVecsPermSoft[lock.restartPerm[s]] = s

C16_Witness ==
  /\ LockingSucceeded
  /\ lock.slots \subseteq Slots
  /\ Cardinality(UnconvergedAtLoop) >= lock.numCandidates
  /\ ArbitrarySlots # {}
  /\ lock.numPrevRetainedCapped > 0

\* a call whose restartPerm is a permutation and whose first candidate is an
\* arbitrary vector
C16_Relocation ==
  C16_Witness => C16_ArbitraryRelocated


(***************************************************************************)
(* The audit of the flags in restart_soft_locking_dprimme                  *)
(***************************************************************************)
\* the pairs that the audit looks for, among the flags and the Ritz values that
\* the locking stage receives
DriftedAtLocking ==
  {i \in DOMAIN sel.flags :
     /\ i < primme.numEvals
     /\ sel.flags[i] # UNCONVERGED
     /\ fabs(sel.hVals[i].v - entry.evals[i]) > entry.resNorms[i]}

AuditedFlags ==
  [i \in DOMAIN sel.flags |->
     IF i \in DriftedAtLocking THEN UNCONVERGED ELSE sel.flags[i]]

\* the statement without a condition on the size of the basis
C17_AsStated ==
  Returned => lock.flags = AuditedFlags

\* C17: when basisSize + numOrthoConst < n, every i < numEvals whose flag is not
\* UNCONVERGED on entry and whose Ritz value differs from evals[i] by more than
\* resNorms[i] is flagged UNCONVERGED on return and no other flag changes; when
\* the basis spans the whole space no flag changes.
C17_DriftAudit ==
  Returned =>
    lock.flags = IF entry.basisSize + primme.numOrthoConst < primme.n
                 THEN AuditedFlags ELSE sel.flags

C17_Witness ==
  /\ Returned
  /\ entry.basisSize + primme.numOrthoConst < primme.n
  /\ DriftedAtLocking # {}
  /\ \E i \in 0 .. (entry.basisSize - 1) :
       i \notin DriftedAtLocking /\ lock.flags[i] = CONVERGED
  /\ lock.flags # sel.flags


(***************************************************************************)
(* numConverged at the return of the soft-locking restart                  *)
(***************************************************************************)
ConvergedWanted ==
  {i \in 0 .. (min(entry.basisSize, primme.numEvals) - 1) : lock.flags[i] # UNCONVERGED}

\* C18: after the soft-locking restart numConverged is the number of
\* i < min(basisSize, numEvals) whose flag, after the audit, is not UNCONVERGED;
\* it never exceeds numEvals.
C18_NumConverged ==
  Returned =>
    /\ lock.numConverged = Cardinality(ConvergedWanted)
    /\ args.numConverged = lock.numConverged
    /\ args.numConverged <= primme.numEvals

\* a call that lowers numConverged, with a flagged pair beyond numEvals
C18_Witness ==
  /\ Returned
  /\ args.numConverged < entry.numConverged
  /\ args.numConverged > 0
  /\ \E i \in 0 .. (entry.basisSize - 1) :
       i >= primme.numEvals /\ lock.flags[i] # UNCONVERGED


(***************************************************************************)
(* H after restart_RR                                                      *)
(***************************************************************************)
RayleighRitz == Returned /\ proj.path = "RR"

\* the entry (i, j) of the symmetric matrix, kept in the rows above the diagonal
HEntry(i, j) == args.H[max(i, j)][min(i, j)]

\* C19: after the Rayleigh-Ritz restart, in the leading restartSize columns of
\* H a column j outside the block of the previous vectors has hVals[j] (in the
\* order of restartPerm, before hVecsPerm is applied) on the diagonal and zeros
\* off the diagonal; a column of the block is zero in the rows before the block
\* and carries the submatrix computed from the old H.
C19_HRebuilt ==
  RayleighRitz =>
    \A j \in 0 .. (lock.restartSize - 1) :
      IF ~InPrevBlock(j)
      THEN /\ args.H[j][j] = lock.hVals[j]
           /\ \A i \in 0 .. (lock.restartSize - 1) : i # j => HEntry(i, j) = tzero
      ELSE /\ \A i \in 0 .. (proj.indexOfPreviousVecs - 1) : args.H[j][i] = tzero
           /\ \A i \in proj.indexOfPreviousVecs .. j :
                i >= 0 => args.H[j][i] = Col("sub", j - proj.indexOfPreviousVecs)

C19_Witness ==
  /\ RayleighRitz
  /\ proj.indexOfPreviousVecs > 0
  /\ proj.numPrevRetained > 0
  /\ proj.indexOfPreviousVecs + proj.numPrevRetained < lock.restartSize
  /\ lock.hVals[0] # entry.hVals[0]


(***************************************************************************)
(* The block of the previous vectors under hVecsPerm, in restart_RR        *)
(***************************************************************************)
BlockPositions == proj.at .. (proj.at + proj.numPrevRetained - 1)

\* C20: under hVecsPerm the block of the previous vectors occupies the
\* positions from orderedIndexOfPreviousVecs on, in order: hVecsPerm[
\* orderedIndexOfPreviousVecs + t] = indexOfPreviousVecs + t for
\* t < numPrevRetained; the eigenpairs of the inserted submatrix are then written
\* into the columns of the block, every other column of hVecs is a vector of the
\* standard basis, and the assertion on orderedIndexOfPreviousVecs holds.
C20_BlockContiguous ==
  (RayleighRitz /\ proj.inner = 0) =>
    /\ proj.assertOk
    /\ \A t \in 0 .. (proj.numPrevRetained - 1) :
         /\ proj.at + t \in DOMAIN lock.hVecsPerm
         /\ lock.hVecsPerm[proj.at + t] = proj.indexOfPreviousVecs + t
    /\ \A c \in 0 .. (lock.restartSize - 1) :
         /\ c \in DOMAIN lock.hVecsPerm
         /\ args.hVecs[c] =
              IF c \in BlockPositions THEN Col("solved", c - proj.at)
              ELSE Col("unit", lock.hVecsPerm[c])
         /\ c \notin BlockPositions => ~InPrevBlock(lock.hVecsPerm[c])

C20_Witness ==
  /\ RayleighRitz /\ proj.inner = 0
  /\ lock.slots \subseteq Slots
  /\ proj.numPrevRetained = MaxPrev
  /\ proj.at > 0
  /\ \A t \in 0 .. (proj.numPrevRetained - 1) :
       /\ proj.at + t \in DOMAIN lock.hVecsPerm
       /\ lock.hVecsPerm[proj.at + t] = proj.indexOfPreviousVecs + t


(***************************************************************************)
(* hVecsPerm over the restarted basis                                      *)
(***************************************************************************)
Restarted == 0 .. (lock.restartSize - 1)

\* C21: after the soft-locking restart hVecsPerm maps 0 .. restartSize - 1 one
\* to one onto 0 .. restartSize - 1; so the permutation of hVals by hVecsPerm
\* reads only the first restartSize values and every unit column that restart_RR
\* writes has its entry 1 in a row below restartSize.
C21_HVecsPermBijection ==
  /\ LockingSucceeded =>
       /\ Restarted \subseteq DOMAIN lock.hVecsPermSoft
       /\ {lock.hVecsPermSoft[i] : i \in Restarted \cap DOMAIN lock.hVecsPermSoft} = Restarted
  /\ (RayleighRitz /\ proj.inner = 0) =>
       \A j \in Restarted \cap DOMAIN args.hVecs :
         /\ args.hVecs[j].k = "unit" => args.hVecs[j].i \in Restarted
         /\ j \notin BlockPositions => args.hVals[j] \in {lock.hVals[i] : i \in Restarted}

\* the same for the calls in which the restarted basis holds the leading
\* restartSize pairs of the old one
C21_LeadingKept ==
  (pc = "return" /\ lock.slots \subseteq Slots /\ CandidateSlots \subseteq Slots
     /\ Cardinality(UnconvergedAtLoop) >= lock.numCandidates
     /\ {lock.restartPerm[s] : s \in Restarted \cap Slots} = Restarted)
    => C21_HVecsPermBijection

C21_Witness ==
  /\ RayleighRitz /\ proj.inner = 0
  /\ lock.restartSize < entry.basisSize
  /\ {lock.restartPerm[s] : s \in Restarted \cap Slots} = Restarted
  /\ \E i \in Restarted : lock.hVecsPermSoft[i] # i


(***************************************************************************)
(* The packing of evecs, evecsHat and M in the soft-locking restart        *)
(***************************************************************************)
SkewLocked == LockingSucceeded /\ entry.evecsHat

\* the column of the old evecs that the packed column a comes from
PackSource(a) ==
  IF a < primme.numOrthoConst THEN a
  ELSE primme.numOrthoConst + lock.restartPerm[a - primme.numOrthoConst]

PackedColumns == 0 .. (primme.numOrthoConst + lock.numConvergedStored - 1)

\* evecs and evecsHat are packed in the order of restartPerm, constraints in place
PackedInOrder ==
  \A a \in PackedColumns :
    /\ a >= primme.numOrthoConst => a - primme.numOrthoConst \in DOMAIN lock.restartPerm
    /\ PackSource(a) \in DOMAIN entry.evecs
    /\ lock.evecs[a] = entry.evecs[PackSource(a)]
    /\ lock.evecsHatCols[a] = entry.evecsHatCols[PackSource(a)]

\* C22: when the soft-locking restart packs evecs and evecsHat in the order of
\* restartPerm behind the numOrthoConst constraints, the new M[a, b] is the old
\* M[src(a), src(b)] for the same map src of the columns, and numConvergedStored
\* is the number of columns packed.
C22_PackedM ==
  (SkewLocked /\ PackedInOrder) =>
    /\ \A a \in PackedColumns : \A b \in PackedColumns :
         lock.M[b][a] = entry.M[PackSource(b)][PackSource(a)]
    /\ lock.numConvergedStored <= lock.numConverged
    /\ \A t \in 0 .. (lock.numConvergedStored - 1) :
         lock.restartPerm[t] < entry.numConvergedStored

\* the same without constraints
C22_NoConstraints ==
  primme.numOrthoConst = 0 => C22_PackedM

C22_Witness ==
  /\ SkewLocked /\ PackedInOrder
  /\ primme.numOrthoConst = 0
  /\ lock.numConvergedStored > 0
  /\ lock.numConvergedStored < entry.numConvergedStored


(***************************************************************************)
(* The target shift in restart_qr                                          *)
(***************************************************************************)
QrRan == Returned /\ proj.path \in {"quick", "incremental"}

\* min(numTargetShifts - 1, numConverged), with numConverged as the locking
\* stage left it
ShiftInForce == min(primme.numTargetShifts - 1, lock.numConverged)

ShiftChanged ==
  \/ entry.targetShiftIndex < 0
  \/ primme.targetShifts[entry.targetShiftIndex] # primme.targetShifts[ShiftInForce]

\* C23: in a refined or harmonic restart targetShiftIndex is set to
\* min(numTargetShifts - 1, numConverged) exactly when it is negative or its
\* shift differs from targetShifts[min(numTargetShifts - 1, numConverged)]; then
\* the factorisation is rebuilt over the first restartSize columns and no step
\* of the incremental update is made; after the restart
\* targetShifts[targetShiftIndex] = targetShifts[min(numTargetShifts - 1,
\* numConverged)].
C23_TargetShift ==
  QrRan =>
    /\ (proj.path = "quick") = ShiftChanged
    /\ args.targetShiftIndex =
         IF ShiftChanged THEN ShiftInForce ELSE entry.targetShiftIndex
    /\ args.targetShiftIndex \in DOMAIN primme.targetShifts
    /\ primme.targetShifts[args.targetShiftIndex] = primme.targetShifts[ShiftInForce]
    /\ (ShiftChanged /\ proj.inner = 0) =>
         \A j \in 0 .. (lock.restartSize - 1) :
           /\ \A i \in 0 .. j : args.R[j][i] = Col("fresh", j)
           /\ args.hVecs[j] = Col("solved", j)
           /\ args.hVals[j] = Solved(j)
           /\ args.hSVals[j] = Col("solved", j)
    /\ (~ShiftChanged /\ proj.inner = 0) =>
         \A j \in 0 .. (lock.restartSize - 1) : args.R[j][j].k # "fresh"

\* the shift changes because numConverged has passed the index in force
C23_Witness ==
  /\ QrRan
  /\ proj.inner = 0
  /\ entry.targetShiftIndex >= 0
  /\ entry.targetShiftIndex < ShiftInForce
  /\ ShiftChanged
  /\ args.targetShiftIndex = ShiftInForce


(***************************************************************************)
(* The skew projector after the projection restart                         *)
(***************************************************************************)
SkewProjection == Returned /\ entry.evecsHat /\ proj.stage # "none"

\* numConverged - numConvergedStored as the locking stage left them
RecentlyConverged == lock.numConverged - lock.numConvergedStored

\* C24: when evecsHat is maintained and the restart of the projected problem
\* succeeded, the preconditioner is applied in one call to numRecentlyConverged =
\* numConverged - numConvergedStored >= 0 vectors, stats.numPreconds grows by
\* that number and numConvergedStored ends equal to numConverged; when it
\* failed the preconditioner is not applied and M, UDU and numConvergedStored
\* are left as they were.
C24_SkewMaintenance ==
  SkewProjection =>
    IF proj.inner = 0
    THEN /\ proj.precondCalls = <<RecentlyConverged>>
         /\ RecentlyConverged >= 0
         /\ proj.numPreconds = RecentlyConverged
         /\ args.numConvergedStored = lock.numConverged
         /\ args.numConvergedStored = args.numConverged
         /\ \A c \in DOMAIN args.evecsHatCols :
              (args.evecsHatCols[c] # lock.evecsHatCols[c]) =
                (/\ primme.numOrthoConst + lock.numConvergedStored <= c
                 /\ c < primme.numOrthoConst + lock.numConverged)
    ELSE /\ proj.precondCalls = <<>>
         /\ proj.numPreconds = 0
         /\ args.evecsHatCols = lock.evecsHatCols
         /\ args.M = lock.M
         /\ args.UDU = entry.UDU
         /\ args.numConvergedStored = lock.numConvergedStored

\* a restart that keeps a stored vector and meets a newly converged one
C24_Witness ==
  /\ SkewProjection
  /\ proj.inner = 0
  /\ RecentlyConverged > 0
  /\ lock.numConvergedStored > 0
  /\ args.M # lock.M


(***************************************************************************)
(* The Ritz pairs after dtr_dprimme                                        *)
(***************************************************************************)
\* the position on entry of the pair that ends at position i
DtrSource(i) ==
  IF i < dtrOut.lOpt THEN i
  ELSE IF i < dtrOut.lOpt + dtrOut.rOpt
       THEN dtrArgs.basisSize - dtrOut.rOpt + (i - dtrOut.lOpt)
       ELSE dtrOut.lOpt + (i - dtrOut.lOpt - dtrOut.rOpt)

\* C25: the selector only permutes the Ritz pairs: the last rOpt values of hVals
\* and the last rOpt whole columns of hVecs go, in their order, to the positions
\* lOpt .. lOpt + rOpt - 1, the positions before lOpt keep their pairs and the
\* displaced pairs follow in their order, whatever the leading dimension of
\* hVecs; no value and no column is lost or duplicated.
C25_DtrPermutes ==
  DtrReturned =>
    /\ \A i \in 0 .. (dtrArgs.basisSize - 1) :
         /\ dtrOut.hVals[i] = dtrArgs.hVals[DtrSource(i)]
         /\ dtrOut.hVecs[i] = dtrArgs.hVecs[DtrSource(i)]
    /\ {dtrOut.hVecs[i] : i \in 0 .. (dtrArgs.basisSize - 1)} =
         {dtrArgs.hVecs[i] : i \in 0 .. (dtrArgs.basisSize - 1)}

\* the same when the leading dimension of hVecs is basisSize
C25_PackedColumns ==
  dtrArgs.ldhVecs = dtrArgs.basisSize => C25_DtrPermutes

C25_Witness ==
  /\ DtrReturned
  /\ dtrArgs.ldhVecs = dtrArgs.basisSize
  /\ dtrOut.rOpt > 1
  /\ dtrOut.lOpt + dtrOut.rOpt < dtrArgs.basisSize - 1


(***************************************************************************)
(* The flags after dtr_dprimme                                             *)
(***************************************************************************)
\* C26: reset_flags(flags, first, last) marks exactly the entries first .. last
\* as UNCONVERGED: after the selector the flags propagated to the positions
\* below restartSize keep their values, and the flags from restartSize on are
\* UNCONVERGED.
C26_ResetFlags ==
  DtrReturned =>
    \A i \in 0 .. (dtrArgs.basisSize - 1) :
      dtrOut.flags[i] = IF i < dtrOut.restartSize THEN dtrArgs.flags[DtrSource(i)]
                        ELSE UNCONVERGED

\* the part of it about the entries from restartSize on
C26_ResetAbove ==
  DtrReturned =>
    \A i \in dtrOut.restartSize .. (dtrArgs.basisSize - 1) : dtrOut.flags[i] = UNCONVERGED

C26_Witness ==
  /\ DtrReturned
  /\ \E i \in 0 .. (dtrOut.restartSize - 1) : dtrArgs.flags[DtrSource(i)] # UNCONVERGED
  /\ \E i \in dtrOut.restartSize .. (dtrArgs.basisSize - 1) : dtrArgs.flags[i] # UNCONVERGED


(***************************************************************************)
(* The residual norms that zprimme_svds reports                            *)
(***************************************************************************)
SvdsSolved == SvdsReturned /\ svdsOut.ret = 0 /\ "stage1" \in StagesRun

\* the stage (0 or 1) that ends a solve
FinalStage == IF second_stage(svdsOut.s) THEN 1 ELSE 0

\* C27: in a solve that returns 0 the residual norms are converted to those of
\* the singular triplets exactly once, after the final stage: after stage 1 when
\* methodStage2 is none, and only after stage 2 otherwise; the norms reported
\* are those of the final stage with one conversion applied.
C27_ConvertedOnce ==
  SvdsSolved =>
    /\ svdsOut.converted = <<FinalStage>>
    /\ svdsOut.rnorms.stage = FinalStage
    /\ Len(svdsOut.rnorms.conv) = 1

\* what the test on methodStage2 gives instead: no conversion without a second
\* stage, one after each stage with it
C27_AsCoded ==
  SvdsSolved =>
    /\ svdsOut.converted = IF second_stage(svdsOut.s) THEN <<0, 1>> ELSE <<>>
    /\ svdsOut.rnorms.stage = FinalStage
    /\ Len(svdsOut.rnorms.conv) = IF second_stage(svdsOut.s) THEN 1 ELSE 0

C27_Witness ==
  /\ SvdsSolved
  /\ ~second_stage(svdsOut.s)
  /\ svdsOut.s.method = primme_svds_op_AtA


(***************************************************************************)
(* The size of the restarted basis                                         *)
(***************************************************************************)
\* C28: on every successful return of restart_dprimme without locking the final
\* restart size is at most basisSize, so that the restarted basis V * hVecs uses
\* only columns of the basisSize x basisSize matrix hVecs.
C28_SizeWithinBasis ==
  Returned /\ ret = 0 /\ ~primme.locking =>
    /\ lock.restartSize <= entry.basisSize
    /\ args.restartSizeOutput <= entry.basisSize

\* the same for the calls that retain no previous vector
C28_NothingRetained ==
  Returned /\ ret = 0 /\ ~primme.locking /\ entry.numPrevRetained = 0 =>
    /\ lock.restartSize <= entry.basisSize
    /\ args.restartSizeOutput <= entry.basisSize

C28_Witness ==
  /\ Returned
  /\ ret = 0
  /\ ~primme.locking
  /\ NotFull
  /\ entry.numPrevRetained > 0
  /\ args.numPrevRetained > 0


(***************************************************************************)
(* The layout that the soft-locking restart computes                       *)
(***************************************************************************)
\* C29: the layout indices of the soft-locking restart satisfy
\* 0 <= indexOfPreviousVecs <= left <= restartSize, with
\* left - indexOfPreviousVecs = numPrevRetained (the number of previous vectors
\* kept at line 469) and restartSize - left = numCandidates, for every
\* maxBlockSize, minRestartSize, numEvals, numArbitraryVecs and flags.
C29_Layout ==
  Returned =>
    /\ 0 <= lock.indexOfPreviousVecs
    /\ lock.indexOfPreviousVecs <= lock.left
    /\ lock.left <= lock.restartSize
    /\ lock.left - lock.indexOfPreviousVecs = lock.numPrevRetainedCapped
    /\ lock.restartSize - lock.left = lock.numCandidates

\* the part of it that does not depend on the sign of the indices
C29_Differences ==
  Returned =>
    /\ lock.indexOfPreviousVecs <= lock.left
    /\ lock.left <= lock.restartSize
    /\ lock.left - lock.indexOfPreviousVecs = lock.numPrevRetainedCapped
    /\ lock.restartSize - lock.left = lock.numCandidates

C29_Witness ==
  /\ Returned
  /\ lock.ret = 0
  /\ lock.numPrevRetainedCapped > 0
  /\ lock.numCandidates > 0
  /\ lock.indexOfPreviousVecs > 0


(***************************************************************************)
(* The built-in operator of the normal equations and its scratch           *)
(***************************************************************************)
\* the stages of the call that ran the built-in operator on A'A or AA'
NormalStages ==
  {k \in DOMAIN svdsOut.work :
     /\ svdsOut.work[k].builtin
     /\ svdsOut.work[k].method \in {primme_svds_op_AtA, primme_svds_op_AAt}}

ScratchRows(w) ==
  IF w.method = primme_svds_op_AtA THEN svdsOut.s.mLocal ELSE svdsOut.s.nLocal

\* the columns that the chunks of w pass, each counted as often as it is passed
ChunkColumns(w) ==
  [c \in 0 .. (w.blockSize - 1) |->
     Cardinality({j \in DOMAIN w.chunks :
                    w.chunks[j].i <= c /\ c < w.chunks[j].i + w.chunks[j].bs})]

\* C30: the built-in operator of the normal equations splits the blockSize
\* columns into consecutive chunks of 1 to maxBlockSize columns that cover every
\* column exactly once, in finitely many rounds; the product of each chunk fits
\* in the maxBlockSize * (mLocal for AtA, nLocal for AAt) elements at the start
\* of the real workspace of the SVDS structure, which lie within that workspace
\* and before the real workspace handed to the eigensolver of the stage.
C30_MatvecScratch ==
  SvdsReturned =>
    \A k \in NormalStages :
      LET w == svdsOut.work[k]
          scratch == w.maxBlockSize * ScratchRows(w)
      IN /\ Len(w.chunks) <= w.blockSize
         /\ \A j \in DOMAIN w.chunks :
              /\ 1 <= w.chunks[j].bs
              /\ w.chunks[j].bs <= w.maxBlockSize
              /\ w.chunks[j].i = IF j = 1 THEN 0
                                 ELSE w.chunks[j - 1].i + w.chunks[j - 1].bs
              /\ w.chunks[j].scratch.from = 0
              /\ w.chunks[j].scratch.len = w.chunks[j].bs * ScratchRows(w)
              /\ w.chunks[j].scratch.len <= scratch
              /\ w.chunks[j].scratch.from + w.chunks[j].scratch.len <= w.realWork.from
         /\ \A c \in 0 .. (w.blockSize - 1) : ChunkColumns(w)[c] = 1
         /\ scratch * SizeofComplexZ <= svdsOut.s.realWorkSize
         /\ w.realWork.from = scratch
         /\ w.realWork.bytes >= 0

\* a product by more columns than maxBlockSize, cut into unequal chunks
C30_Witness ==
  /\ SvdsReturned
  /\ \E k \in NormalStages :
       /\ svdsOut.work[k].maxBlockSize = 2
       /\ svdsOut.work[k].blockSize = 3
       /\ Len(svdsOut.work[k].chunks) = 2

====
